---- MODULE Spec2Model ----
(***************************************************************************)
(* Model of the mcp-memory server: the validation functions, the policy   *)
(* engine and tool handlers of the JSON-RPC dispatcher (src/mcp.ts) and    *)
(* the persistence store (store.ts) with the relational schema it runs on. *)
(*                                                                         *)
(* Strings are sequences of one-character strings so that trim(), the      *)
(* whitespace and control-character tests and concatenation are computed.  *)
(* SQL NULL / JS null of a string column is the marker NULL.  Entry and    *)
(* context ids are compared as text; the engine's uuid input syntax check  *)
(* is not modelled.                                                        *)
(***************************************************************************)
EXTENDS Integers, Sequences, FiniteSets, TLC

(***************************************************************************)
(* JSON values as they arrive in params.                                   *)
(***************************************************************************)
NULL == <<"NULL">>

JUndef == [k |-> "undefined", v |-> 0]

JNull == [k |-> "null", v |-> 0]

JStr(s) == [k |-> "string", v |-> s]

JNum(n) == [k |-> "number", v |-> n]

JArr(a) == [k |-> "array", v |-> a]

JObj(o) == [k |-> "object", v |-> o]

JBool(b) == [k |-> "boolean", v |-> b]

Ok(v) == [ok |-> TRUE, v |-> v, err |-> ""]

Fail(msg) == [ok |-> FALSE, v |-> NULL, err |-> msg]

(***************************************************************************)
(* Characters.                                                             *)
(***************************************************************************)
Whitespace == {" ", "\t"}

ControlChars == {"\t"}

RECURSIVE TrimStart(_)
TrimStart(s) ==
    IF s # <<>> /\ Head(s) \in Whitespace THEN TrimStart(Tail(s)) ELSE s

RECURSIVE TrimEnd(_)
TrimEnd(s) ==
    IF s # <<>> /\ s[Len(s)] \in Whitespace
    THEN TrimEnd(SubSeq(s, 1, Len(s) - 1))
    ELSE s

Trim(s) == TrimEnd(TrimStart(s))

ensureNoControlChars(value) == \A i \in 1..Len(value) : value[i] \notin ControlChars

(***************************************************************************)
(* validation.ts                                                           *)
(***************************************************************************)
normalizeOptionalString(value, field, maxLength) ==
    IF value.k \in {"undefined", "null"} THEN Ok(NULL)
    ELSE IF value.k # "string" THEN Fail(field \o " must be a string")
    ELSE LET checked(trimmed) ==
                 IF trimmed = <<>> THEN Ok(NULL)
                 ELSE IF Len(trimmed) > maxLength
                      THEN Fail(field \o " exceeds maxLength characters")
                 ELSE IF ~ensureNoControlChars(trimmed)
                      THEN Fail(field \o " contains control characters")
                 ELSE Ok(trimmed)
         IN checked(Trim(value.v))

normalizeRequiredString(value, field, maxLength) ==
    LET required(normalized) ==
            IF ~normalized.ok THEN normalized
            ELSE IF normalized.v = NULL THEN Fail(field \o " is required")
            ELSE normalized
    IN required(normalizeOptionalString(value, field, maxLength))

normalizeIdentifier(value, field, maxLength) ==
    LET spaceless(normalized) ==
            IF ~normalized.ok THEN normalized
            ELSE IF \E i \in 1..Len(normalized.v) : normalized.v[i] \in Whitespace
                 THEN Fail(field \o " must not contain spaces")
            ELSE normalized
    IN spaceless(normalizeRequiredString(value, field, maxLength))

normalizeNamespace(value) == normalizeIdentifier(value, "namespace", 64)

normalizeContextId(value) == normalizeIdentifier(value, "context_id", 128)

normalizeAlias(value) == normalizeIdentifier(value, "alias", 64)

(***************************************************************************)
(* Entry types and scopes (validation.ts ENTRY_TYPES, SCOPES).             *)
(***************************************************************************)
T_summary == <<"s","u","m","m","a","r","y">>

T_fact == <<"f","a","c","t">>

T_decision == <<"d","e","c","i","s","i","o","n">>

T_question == <<"q","u","e","s","t","i","o","n">>

T_note == <<"n","o","t","e">>

T_snippet == <<"s","n","i","p","p","e","t">>

T_todo == <<"t","o","d","o">>

ENTRY_TYPES == {T_summary, T_fact, T_decision, T_question, T_note, T_snippet, T_todo}

S_local == <<"l","o","c","a","l">>

S_shared == <<"s","h","a","r","e","d">>

SCOPES == {S_local, S_shared}

normalizeScope(value) ==
    LET known(s) == IF s \notin SCOPES THEN Fail("scope must be one of: local, shared")
                    ELSE Ok(s)
        check(scope) == IF ~scope.ok THEN scope
                        ELSE known(IF scope.v = NULL THEN S_shared ELSE scope.v)
    IN check(normalizeOptionalString(value, "scope", 16))

normalizeEntryType(value) ==
    LET known(t) == IF t \notin ENTRY_TYPES
                    THEN Fail("entry_type must be one of: ENTRY_TYPES")
                    ELSE Ok(t)
        check(raw) == IF ~raw.ok THEN raw
                      ELSE known(IF raw.v = NULL THEN T_note ELSE raw.v)
    IN check(normalizeOptionalString(value, "entry_type", 20))

(***************************************************************************)
(* Numbers are held in tenths (JNum(427) is 42.7).  Number(string) is      *)
(* computed for decimal digit strings; any other non-blank string is NaN.  *)
(***************************************************************************)
Digits == <<"0","1","2","3","4","5","6","7","8","9">>

DigitVal(c) == (CHOOSE i \in 1..10 : Digits[i] = c) - 1

IsDigit(c) == \E i \in 1..10 : Digits[i] = c

RECURSIVE ParseDigits(_, _)
ParseDigits(s, acc) ==
    IF s = <<>> THEN acc ELSE ParseDigits(Tail(s), acc * 10 + DigitVal(Head(s)))

Num(n) == [nan |-> FALSE, n |-> n]

NaN == [nan |-> TRUE, n |-> 0]

\* Number(string): blank is 0, decimal digits their value, anything else NaN
StringToNumber(text) ==
    LET parse(t) ==
            IF t = <<>> THEN Num(0)
            ELSE IF \A i \in 1..Len(t) : IsDigit(t[i]) THEN Num(10 * ParseDigits(t, 0))
            ELSE NaN
    IN parse(Trim(text))

\* Number(value): null is 0, true 1 and false 0; an array converts through its
\* string form, so the empty array is 0 and an array of one number or one
\* string converts as that element; objects and longer arrays are NaN.
ToNumber(value) ==
    IF value.k = "number" THEN Num(value.v)
    ELSE IF value.k = "string" THEN StringToNumber(value.v)
    ELSE IF value.k = "null" THEN Num(0)
    ELSE IF value.k = "boolean" THEN Num(IF value.v THEN 10 ELSE 0)
    ELSE IF value.k = "array"
         THEN (IF Len(value.v) = 0 THEN Num(0)
               ELSE IF Len(value.v) = 1 /\ value.v[1].k = "number" THEN Num(value.v[1].v)
               ELSE IF Len(value.v) = 1 /\ value.v[1].k = "string"
                    THEN StringToNumber(value.v[1].v)
               ELSE NaN)
    ELSE NaN

MathRound(n) == (n + 5) \div 10

normalizeImportance_clamped(value) ==
    IF value.k \in {"undefined", "null"} \/ (value.k = "string" /\ value.v = <<>>) THEN Ok(0)
    ELSE LET ranged(num) ==
                 IF num.nan
                 THEN [ok |-> FALSE, v |-> 0, err |-> "importance must be between 0 and 100"]
                 ELSE Ok(IF num.n < 0 THEN 0 ELSE IF num.n > 1000 THEN 100
                         ELSE MathRound(num.n))
         IN ranged(ToNumber(value))

normalizeImportance(value) ==
    IF value.k \in {"undefined", "null"} \/ (value.k = "string" /\ value.v = <<>>) THEN Ok(0)
    ELSE LET ranged(num) ==
                 IF num.nan \/ num.n < 0 \/ num.n > 1000
                 THEN [ok |-> FALSE, v |-> 0, err |-> "importance must be between 0 and 100"]
                 ELSE Ok(MathRound(num.n))
         IN ranged(ToNumber(value))

RECURSIVE Unique(_, _)
Unique(s, seen) ==
    IF s = <<>> THEN <<>>
    ELSE IF Head(s) \in seen THEN Unique(Tail(s), seen)
    ELSE <<Head(s)>> \o Unique(Tail(s), seen \cup {Head(s)})

SeqFilterNonNull(s) == SelectSeq(s, LAMBDA x : x # NULL)

normalizeTags_truncating(value, maxTags, maxTagLength) ==
    IF value.k \in {"undefined", "null"} THEN Ok(<<>>)
    ELSE IF value.k # "array" THEN Fail("tags must be an array of strings")
    ELSE LET capped(unique) ==
                 IF Len(unique) > maxTags THEN Ok(SubSeq(unique, 1, maxTags))
                 ELSE Ok(unique)
             cleaned(mapped) ==
                 LET bad == {i \in 1..Len(mapped) : ~mapped[i].ok} IN
                 IF bad # {}
                 THEN Fail(mapped[CHOOSE i \in bad : \A j \in bad : i <= j].err)
                 ELSE capped(Unique(SeqFilterNonNull([i \in 1..Len(mapped) |-> mapped[i].v]),
                                    {}))
         IN cleaned([i \in 1..Len(value.v) |->
                        normalizeOptionalString(value.v[i], "tag", maxTagLength)])

normalizeTags(value, maxTags, maxTagLength) ==
    IF value.k \in {"undefined", "null"} THEN Ok(<<>>)
    ELSE IF value.k # "array" THEN Fail("tags must be an array of strings")
    ELSE LET capped(unique) ==
                 IF Len(unique) > maxTags THEN Fail("tags cannot exceed maxTags items")
                 ELSE Ok(unique)
             cleaned(mapped) ==
                 LET bad == {i \in 1..Len(mapped) : ~mapped[i].ok} IN
                 IF bad # {}
                 THEN Fail(mapped[CHOOSE i \in bad : \A j \in bad : i <= j].err)
                 ELSE capped(Unique(SeqFilterNonNull([i \in 1..Len(mapped) |-> mapped[i].v]),
                                    {}))
         IN cleaned([i \in 1..Len(value.v) |->
                        normalizeOptionalString(value.v[i], "tag", maxTagLength)])

(***************************************************************************)
(* mcp.ts helpers                                                          *)
(***************************************************************************)
EmptyObject == {}

normalizeMetadata(value) ==
    IF value.k \in {"undefined", "null"} THEN Ok(EmptyObject)
    ELSE IF value.k # "object" THEN Fail("metadata must be an object")
    ELSE Ok(value.v)

NoEmbedding == <<>>

normalizeEmbedding(value) ==
    IF value.k \in {"undefined", "null"} THEN Ok(NoEmbedding)
    ELSE IF value.k # "array" THEN Fail("embedding must be an array of numbers")
    ELSE IF Len(value.v) = 0 THEN Ok(NoEmbedding)
    ELSE LET finite(vector) ==
                 IF \E i \in 1..Len(vector) : vector[i].nan
                 THEN Fail("embedding must contain only numbers")
                 ELSE IF Len(vector) > 4096 THEN Fail("embedding is too large")
                 ELSE Ok([i \in 1..Len(vector) |-> vector[i].n])
         IN finite([i \in 1..Len(value.v) |-> ToNumber(value.v[i])])

(***************************************************************************)
(* Relational engine: tables are sets of rows.  A jsonb object is a set of *)
(* <<key, value>> pairs with distinct keys.                                *)
(***************************************************************************)
NULL_TAGS == <<NULL>>

NULL_OBJ == {<<"NULL", "NULL">>}

Keys(obj) == {p[1] : p \in obj}

JsonbConcat_replace(a, b) == b

JsonbConcat(a, b) == {p \in a : p[1] \notin Keys(b)} \cup b

COALESCE(a, b) == IF a = NULL THEN b ELSE a

Uuid(n) == <<"u", Digits[n + 1]>>

(***************************************************************************)
(* store.ts                                                                *)
(***************************************************************************)
resolveContextPk_anyContext(ctxs, namespace, context_id) ==
    IF \E c \in ctxs : c.namespace = namespace
    THEN (CHOOSE c \in ctxs : c.namespace = namespace).id
    ELSE NULL

resolveContextPk(ctxs, namespace, context_id) ==
    IF \E c \in ctxs : c.namespace = namespace /\ c.context_id = context_id
    THEN (CHOOSE c \in ctxs : c.namespace = namespace /\ c.context_id = context_id).id
    ELSE NULL

\* The row proposed for insertion by the VALUES list; EXCLUDED names it.
ContextValues(id, clock, input) ==
    [id |-> id,
     created_at |-> clock,
     namespace |-> input.namespace,
     context_id |-> input.context_id,
     description |-> input.description,
     tags |-> IF input.tags = NULL_TAGS THEN <<>> ELSE input.tags,
     scope |-> COALESCE(input.scope, S_shared),
     owner |-> input.owner,
     metadata |-> IF input.metadata = NULL_OBJ THEN EmptyObject ELSE input.metadata]

ContextOnConflict_overwrite(row, EXCLUDED) ==
    [row EXCEPT
        !.description = EXCLUDED.description,
        !.tags = IF EXCLUDED.tags = NULL_TAGS THEN row.tags ELSE EXCLUDED.tags,
        !.scope = COALESCE(EXCLUDED.scope, row.scope),
        !.owner = EXCLUDED.owner,
        !.metadata = JsonbConcat(row.metadata, IF EXCLUDED.metadata = NULL_OBJ
                                                THEN EmptyObject ELSE EXCLUDED.metadata)]

ContextOnConflict(row, EXCLUDED) ==
    [row EXCEPT
        !.description = COALESCE(EXCLUDED.description, row.description),
        !.tags = IF EXCLUDED.tags = NULL_TAGS THEN row.tags ELSE EXCLUDED.tags,
        !.scope = COALESCE(EXCLUDED.scope, row.scope),
        !.owner = COALESCE(EXCLUDED.owner, row.owner),
        !.metadata = JsonbConcat(row.metadata, IF EXCLUDED.metadata = NULL_OBJ
                                                THEN EmptyObject ELSE EXCLUDED.metadata)]

createContext_replaceRow(ctxs, n, clock, input) ==
    LET insert(EXCLUDED, hit) ==
            [contexts |-> (ctxs \ hit) \cup {EXCLUDED}, row |-> EXCLUDED, uuids |-> n + 1]
    IN insert(ContextValues(Uuid(n + 1), clock, [input EXCEPT
                  !.metadata = IF @ = NULL_OBJ THEN EmptyObject ELSE @]),
              {c \in ctxs : c.namespace = input.namespace
                            /\ c.context_id = input.context_id})

createContext_insertOnly(ctxs, n, clock, input) ==
    LET insert(EXCLUDED) ==
            [contexts |-> ctxs \cup {EXCLUDED}, row |-> EXCLUDED, uuids |-> n + 1]
    IN insert(ContextValues(Uuid(n + 1), clock, [input EXCEPT
                  !.metadata = IF @ = NULL_OBJ THEN EmptyObject ELSE @]))

createContext(ctxs, n, clock, input) ==
    LET updated(old, new) ==
            [contexts |-> (ctxs \ {old}) \cup {new}, row |-> new, uuids |-> n]
        conflict(old, EXCLUDED) == updated(old, ContextOnConflict(old, EXCLUDED))
        insert(EXCLUDED, hit) ==
            IF hit = {}
            THEN [contexts |-> ctxs \cup {EXCLUDED}, row |-> EXCLUDED, uuids |-> n + 1]
            ELSE conflict(CHOOSE c \in hit : TRUE, EXCLUDED)
    IN insert(ContextValues(Uuid(n + 1), clock, [input EXCEPT
                  !.metadata = IF @ = NULL_OBJ THEN EmptyObject ELSE @]),
              {c \in ctxs : c.namespace = input.namespace
                            /\ c.context_id = input.context_id})

deleteContext_noCascade(ctxs, ents, input) ==
    LET hit == {c \in ctxs : c.namespace = input.namespace
                             /\ c.context_id = input.context_id}
    IN [contexts |-> ctxs \ hit, entries |-> ents, deleted |-> Cardinality(hit) > 0]

deleteContext_reportsTrue(ctxs, ents, input) ==
    LET hit == {c \in ctxs : c.namespace = input.namespace
                             /\ c.context_id = input.context_id}
    IN [contexts |-> ctxs \ hit,
        entries |-> {e \in ents : \A c \in hit : e.context_pk # c.id},
        deleted |-> TRUE]

deleteContext(ctxs, ents, input) ==
    LET hit == {c \in ctxs : c.namespace = input.namespace
                             /\ c.context_id = input.context_id}
    IN [contexts |-> ctxs \ hit,
        \* entries.context_pk REFERENCES contexts(id) ON DELETE CASCADE
        entries |-> {e \in ents : \A c \in hit : e.context_pk # c.id},
        deleted |-> Cardinality(hit) > 0]

setContextAlias(als, input) ==
    LET row == [alias |-> input.alias, namespace |-> input.namespace,
                context_id |-> input.context_id]
    IN [aliases |-> {a \in als : a.alias # input.alias} \cup {row}, row |-> row]

deleteContextAlias(als, input) ==
    [aliases |-> {a \in als : a.alias # input.alias},
     deleted |-> \E a \in als : a.alias = input.alias]

NotResolved == [namespace |-> NULL, context_id |-> NULL]

resolveContextAlias(als, alias) ==
    IF ~\E a \in als : a.alias = alias THEN NotResolved
    ELSE LET a == CHOOSE a \in als : a.alias = alias
         IN [namespace |-> a.namespace, context_id |-> a.context_id]

Truthy(s) == s # NULL /\ s # <<>>

RECURSIVE Reverse(_)
Reverse(s) == IF s = <<>> THEN <<>> ELSE Reverse(Tail(s)) \o <<Head(s)>>

\* gzip container: a header byte followed by the encoded payload.
compressText(text) == <<"GZ">> \o Reverse(text)

decompressText_payload(buffer) == Tail(buffer)

decompressText(buffer) == Reverse(Tail(buffer))

prepareRaw_keepText(rawText, storeOptions) ==
    IF ~Truthy(rawText) THEN [rawText |-> NULL, rawCompressed |-> NULL]
    ELSE IF storeOptions.storeRawPlaintext
         THEN [rawText |-> rawText, rawCompressed |-> NULL]
    ELSE [rawText |-> rawText, rawCompressed |-> compressText(rawText)]

prepareRaw(rawText, storeOptions) ==
    IF ~Truthy(rawText) THEN [rawText |-> NULL, rawCompressed |-> NULL]
    ELSE IF storeOptions.storeRawPlaintext
         THEN [rawText |-> rawText, rawCompressed |-> NULL]
    ELSE [rawText |-> NULL, rawCompressed |-> compressText(rawText)]

stripRaw(entry) ==
    [f \in (DOMAIN entry) \ {"raw_compressed"} |->
        IF f = "raw_text" THEN entry.raw_text ELSE entry[f]]

\* timestamptz input: a string of decimal digits is an instant.
IsTimestamp(s) == s # <<>> /\ \A i \in 1..Len(s) : IsDigit(s[i])

NoRow == [id |-> NULL]

EntryColumns(entry, raw, storeOptions) ==
    [entry_type |-> entry.entry_type,
     title |-> entry.title,
     content |-> entry.content,
     tags |-> entry.tags,
     importance |-> entry.importance,
     created_by |-> entry.created_by,
     raw_text |-> raw.rawText,
     raw_compressed |-> raw.rawCompressed,
     metadata |-> entry.metadata,
     expires_at |-> entry.expires_at,
     embedding |-> IF storeOptions.vectorEnabled THEN entry.embedding ELSE NoEmbedding]

StoreError(ents, n, msg) ==
    [entries |-> ents, uuids |-> n, ok |-> FALSE, err |-> msg, row |-> NoRow]

buildUpdateSql_insertOnMiss(ents, n, cols, entry_id, contextPk) ==
    LET stored(hit, new) ==
            [entries |-> (ents \ hit) \cup {new}, uuids |-> n, ok |-> TRUE,
             err |-> "", row |-> stripRaw(new)]
        fresh == [f \in (DOMAIN cols) \cup {"id", "context_pk", "created_at"} |->
                     IF f = "id" THEN entry_id
                     ELSE IF f = "context_pk" THEN contextPk
                     ELSE IF f = "created_at" THEN 0
                     ELSE cols[f]]
        merged(old) == [f \in DOMAIN old |-> IF f \in DOMAIN cols THEN cols[f] ELSE old[f]]
        write(hit) == stored(hit, IF hit = {} THEN fresh
                                  ELSE merged(CHOOSE e \in hit : TRUE))
    IN write({e \in ents : e.id = entry_id /\ e.context_pk = contextPk})

buildUpdateSql_keepOmitted(ents, n, cols, entry_id, contextPk) ==
    LET stored(old, new) ==
            [entries |-> (ents \ {old}) \cup {new}, uuids |-> n, ok |-> TRUE,
             err |-> "", row |-> stripRaw(new)]
        set(old) ==
            stored(old, [f \in DOMAIN old |->
                            IF f \in {"title", "created_by", "expires_at"}
                            THEN (IF cols[f] # NULL THEN cols[f] ELSE old[f])
                            ELSE IF f \in DOMAIN cols THEN cols[f]
                            ELSE old[f]])
        update(hit) ==
            IF hit = {} THEN StoreError(ents, n, "entry not found for context")
            ELSE set(CHOOSE e \in hit : TRUE)
    IN update({e \in ents : e.id = entry_id /\ e.context_pk = contextPk})

\* UPDATE entries SET ... WHERE id = $entry_id AND context_pk = $contextPk RETURNING *
buildUpdateSql(ents, n, cols, entry_id, contextPk) ==
    LET stored(old, new) ==
            [entries |-> (ents \ {old}) \cup {new}, uuids |-> n, ok |-> TRUE,
             err |-> "", row |-> stripRaw(new)]
        set(old) ==
            stored(old, [f \in DOMAIN old |-> IF f \in DOMAIN cols THEN cols[f] ELSE old[f]])
        update(hit) ==
            IF hit = {} THEN StoreError(ents, n, "entry not found for context")
            ELSE set(CHOOSE e \in hit : TRUE)
    IN update({e \in ents : e.id = entry_id /\ e.context_pk = contextPk})

buildInsertSql_keyed(ctxs, ents, n, cols, contextPk, clock) ==
    LET stored(hit, new) ==
            [entries |-> (ents \ {e \in hit : e.id = new.id}) \cup {new},
             uuids |-> IF hit = {} THEN n + 1 ELSE n, ok |-> TRUE,
             err |-> "", row |-> stripRaw(new)]
        write(hit) ==
            stored(hit, [f \in (DOMAIN cols) \cup {"id", "context_pk", "created_at"} |->
                            IF f = "id"
                            THEN (IF hit = {} THEN Uuid(n + 1)
                                  ELSE (CHOOSE e \in hit : TRUE).id)
                            ELSE IF f = "context_pk" THEN contextPk
                            ELSE IF f = "created_at" THEN clock
                            ELSE cols[f]])
    IN IF ~\E c \in ctxs : c.id = contextPk
       THEN StoreError(ents, n, "violates foreign key constraint")
       ELSE write({e \in ents : e.context_pk = contextPk
                                /\ e.entry_type = cols.entry_type})

\* INSERT INTO entries (...) VALUES (...) RETURNING *
buildInsertSql_noForeignKey(ctxs, ents, n, cols, contextPk, clock) ==
    LET stored(new) ==
            [entries |-> ents \cup {new}, uuids |-> n + 1, ok |-> TRUE,
             err |-> "", row |-> stripRaw(new)]
        insert(entryId) ==
            stored([f \in (DOMAIN cols) \cup {"id", "context_pk", "created_at"} |->
                       IF f = "id" THEN entryId
                       ELSE IF f = "context_pk" THEN contextPk
                       ELSE IF f = "created_at" THEN clock
                       ELSE cols[f]])
    IN insert(Uuid(n + 1))

buildInsertSql(ctxs, ents, n, cols, contextPk, clock) ==
    LET stored(new) ==
            [entries |-> ents \cup {new}, uuids |-> n + 1, ok |-> TRUE,
             err |-> "", row |-> stripRaw(new)]
        insert(entryId) ==
            stored([f \in (DOMAIN cols) \cup {"id", "context_pk", "created_at"} |->
                       IF f = "id" THEN entryId
                       ELSE IF f = "context_pk" THEN contextPk
                       ELSE IF f = "created_at" THEN clock
                       ELSE cols[f]])
    IN IF ~\E c \in ctxs : c.id = contextPk
       THEN StoreError(ents, n, "violates foreign key constraint")
       ELSE insert(Uuid(n + 1))

upsertEntry_insertThenThrow(ctxs, ents, n, storeOptions, clock, input) ==
    LET missed(r) == [r EXCEPT !.ok = FALSE, !.err = "entry not found for context",
                               !.row = NoRow]
        write(contextPk, entry, cols) ==
       IF contextPk = NULL THEN StoreError(ents, n, "context not found; create it first")
       ELSE IF Truthy(entry.entry_id)
                /\ ~\E e \in ents : e.id = entry.entry_id /\ e.context_pk = contextPk
            THEN missed(buildInsertSql(ctxs, ents, n, cols, contextPk, clock))
       ELSE IF Truthy(entry.entry_id)
            THEN buildUpdateSql(ents, n, cols, entry.entry_id, contextPk)
       ELSE buildInsertSql(ctxs, ents, n, cols, contextPk, clock)
    IN write(resolveContextPk(ctxs, input.namespace, input.context_id), input.entry,
             EntryColumns(input.entry, prepareRaw(input.entry.raw_text, storeOptions),
                          storeOptions))

upsertEntry(ctxs, ents, n, storeOptions, clock, input) ==
    LET write(contextPk, entry, cols) ==
       IF contextPk = NULL THEN StoreError(ents, n, "context not found; create it first")
       ELSE IF Len(entry.content) > storeOptions.maxContentChars
            THEN StoreError(ents, n, "content exceeds maxContentChars characters")
       ELSE IF Truthy(entry.title) /\ Len(entry.title) > storeOptions.maxTitleChars
            THEN StoreError(ents, n, "title exceeds maxTitleChars characters")
       ELSE IF Truthy(entry.raw_text) /\ Len(entry.raw_text) > storeOptions.maxRawChars
            THEN StoreError(ents, n, "raw_text exceeds maxRawChars characters")
       ELSE IF entry.embedding # NoEmbedding /\ ~storeOptions.vectorEnabled
            THEN StoreError(ents, n, "embedding provided but pgvector is not enabled")
       ELSE IF entry.expires_at # NULL /\ ~IsTimestamp(entry.expires_at)
            THEN StoreError(ents, n, "invalid input syntax for type timestamp with time zone")
       ELSE IF Truthy(entry.entry_id)
            THEN buildUpdateSql(ents, n, cols, entry.entry_id, contextPk)
       ELSE buildInsertSql(ctxs, ents, n, cols, contextPk, clock)
    IN write(resolveContextPk(ctxs, input.namespace, input.context_id), input.entry,
             EntryColumns(input.entry, prepareRaw(input.entry.raw_text, storeOptions),
                          storeOptions))

getEntry_rawAlways(ctxs, ents, input) ==
    LET read(entry) ==
            IF input.include_raw
            THEN IF entry.raw_text = NULL /\ Truthy(entry.raw_compressed)
                 THEN stripRaw([entry EXCEPT
                                   !.raw_text = decompressText(entry.raw_compressed)])
                 ELSE stripRaw(entry)
            ELSE stripRaw(entry)
        select(contextPk) ==
            LET hit == {e \in ents : e.id = input.entry_id /\ e.context_pk = contextPk} IN
            IF contextPk = NULL THEN NoRow
            ELSE IF hit = {} THEN NoRow
            ELSE read(CHOOSE e \in hit : TRUE)
    IN select(resolveContextPk(ctxs, input.namespace, input.context_id))

getEntry(ctxs, ents, input) ==
    LET read(entry) ==
            IF input.include_raw
            THEN IF entry.raw_text = NULL /\ Truthy(entry.raw_compressed)
                 THEN stripRaw([entry EXCEPT
                                   !.raw_text = decompressText(entry.raw_compressed)])
                 ELSE stripRaw(entry)
            ELSE stripRaw([entry EXCEPT !.raw_text = NULL])
        select(contextPk) ==
            LET hit == {e \in ents : e.id = input.entry_id /\ e.context_pk = contextPk} IN
            IF contextPk = NULL THEN NoRow
            ELSE IF hit = {} THEN NoRow
            ELSE read(CHOOSE e \in hit : TRUE)
    IN select(resolveContextPk(ctxs, input.namespace, input.context_id))

deleteEntry_byIdAlone(ctxs, ents, input) ==
    LET delete(contextPk) ==
            LET hit == {e \in ents : e.id = input.entry_id} IN
            IF contextPk = NULL THEN [entries |-> ents, deleted |-> FALSE]
            ELSE [entries |-> ents \ hit, deleted |-> Cardinality(hit) > 0]
    IN delete(resolveContextPk(ctxs, input.namespace, input.context_id))

deleteEntry(ctxs, ents, input) ==
    LET delete(contextPk) ==
            LET hit == {e \in ents : e.id = input.entry_id /\ e.context_pk = contextPk} IN
            IF contextPk = NULL THEN [entries |-> ents, deleted |-> FALSE]
            ELSE [entries |-> ents \ hit, deleted |-> Cardinality(hit) > 0]
    IN delete(resolveContextPk(ctxs, input.namespace, input.context_id))

(***************************************************************************)
(* query.ts: the query is the WHERE clauses, the ORDER BY key, the         *)
(* position of the LIMIT placeholder and the positional parameter list.    *)
(***************************************************************************)
cleanupExpiredEntries_strictlyPast(ents, clock) ==
    LET expired == {e \in ents : e.expires_at # NULL
                                 /\ ParseDigits(e.expires_at, 0) < clock}
    IN [entries |-> ents \ expired, rowCount |-> Cardinality(expired)]

\* DELETE FROM entries WHERE expires_at IS NOT NULL AND expires_at <= now()
cleanupExpiredEntries(ents, clock) ==
    LET expired == {e \in ents : e.expires_at # NULL
                                 /\ ParseDigits(e.expires_at, 0) <= clock}
    IN [entries |-> ents \ expired, rowCount |-> Cardinality(expired)]

NoLimit == [has |-> FALSE, n |-> 0]

Limit(n) == [has |-> TRUE, n |-> n]

Min_first(a, b) == a

Min(a, b) == IF a < b THEN a ELSE b

\* options.query?.trim(), the empty string standing for no text
QueryText_untrimmed(options) == IF options.query = NULL THEN <<>> ELSE options.query

QueryText_none(options) == <<>>

QueryText(options) == IF options.query = NULL THEN <<>> ELSE Trim(options.query)

UseVector_anyMode(options, vectorEnabled) ==
    vectorEnabled /\ options.embedding # NoEmbedding /\ Len(options.embedding) > 0

UseVector(options, vectorEnabled) ==
    /\ vectorEnabled
    /\ options.searchMode \in {"vector", "hybrid"}
    /\ options.embedding # NoEmbedding
    /\ Len(options.embedding) > 0

\* ORDER BY: the leading key with the parameter it refers to, then the rest
OrderBy(key, idx) ==
    [key |-> key, idx |-> idx,
     dir |-> IF key = "distance" THEN "ASC" ELSE "DESC",
     then |-> IF key = "importance" THEN <<"created_at DESC">>
              ELSE <<"importance DESC", "created_at DESC">>]

buildSearchQuery(options, vectorEnabled) ==
    LET push(q, param, value) == [q EXCEPT !.values = @ \o <<[p |-> param, v |-> value]>>]
        clause(q, c, idx) == [q EXCEPT !.where = @ \o <<[c |-> c, idx |-> idx]>>]
        numbered(q, c) == clause(q, c, Len(q.values))
        add(q, param, value, c) == numbered(push(q, param, value), c)
        withExpiry(q) ==
            IF ~options.includeExpired THEN clause(q, "not_expired", 0) ELSE q
        withTags(q) ==
            IF Len(options.tags) > 0 THEN add(q, "tags", options.tags, "tags_overlap") ELSE q
        withTypes(q) ==
            IF Len(options.types) > 0 THEN add(q, "types", options.types, "type_any") ELSE q
        indexed(q) == [q EXCEPT !.queryParamIndex = Len(q.values)]
        withQuery(q, queryText) ==
            IF queryText # <<>>
            THEN clause(indexed(push(q, "query", queryText)), "fts_match", Len(q.values) + 1)
            ELSE q
        distance(q) == [q EXCEPT !.orderBy = OrderBy("distance", Len(q.values))]
        withOrder(q, useVector) ==
            IF useVector THEN distance(push(q, "embedding", options.embedding))
            ELSE IF q.queryParamIndex # 0
                 THEN [q EXCEPT !.orderBy = OrderBy("rank", q.queryParamIndex)]
            ELSE q
        withLimit(q) ==
            [where |-> q.where, orderBy |-> q.orderBy, limitIdx |-> Len(q.values),
             values |-> q.values]
    IN withLimit(push(
           withOrder(
               withQuery(
                   withTypes(withTags(withExpiry(
                       add(add([values |-> <<>>, where |-> <<>>, queryParamIndex |-> 0,
                                orderBy |-> OrderBy("importance", 0)],
                               "namespace", options.namespace, "namespace"),
                           "context_id", options.context_id, "context_id")))),
                   QueryText(options)),
               UseVector(options, vectorEnabled)),
           "limit", Min(IF options.limit.has THEN options.limit.n ELSE 20, 100)))

(***************************************************************************)
(* The engine's evaluation of that query over the two tables.              *)
(***************************************************************************)
Contains(doc, q) ==
    \E i \in 1..(Len(doc) - Len(q) + 1) : SubSeq(doc, i, i + Len(q) - 1) = q

Document(e) == (IF e.title = NULL THEN <<>> ELSE e.title) \o <<" ">> \o e.content

Occurrences(doc, q) ==
    Cardinality({i \in 1..(Len(doc) - Len(q) + 1) : SubSeq(doc, i, i + Len(q) - 1) = q})

SqDistance(a, b) ==
    LET RECURSIVE Sum(_)
        Sum(i) == IF i = 0 THEN 0 ELSE (a[i] - b[i]) * (a[i] - b[i]) + Sum(i - 1)
    IN Sum(Len(a))

ClauseHolds_expiredToo(cl, values, c, e, clock) ==
    CASE cl.c = "namespace" -> c.namespace = values[cl.idx].v
      [] cl.c = "context_id" -> c.context_id = values[cl.idx].v
      [] cl.c = "not_expired" -> TRUE
      [] cl.c = "tags_overlap" ->
            \E i \in 1..Len(e.tags) : \E j \in 1..Len(values[cl.idx].v) :
                e.tags[i] = values[cl.idx].v[j]
      [] cl.c = "type_any" ->
            \E j \in 1..Len(values[cl.idx].v) : e.entry_type = values[cl.idx].v[j]
      [] cl.c = "fts_match" -> Contains(Document(e), values[cl.idx].v)

ClauseHolds(cl, values, c, e, clock) ==
    CASE cl.c = "namespace" -> c.namespace = values[cl.idx].v
      [] cl.c = "context_id" -> c.context_id = values[cl.idx].v
      [] cl.c = "not_expired" ->
            e.expires_at = NULL \/ ParseDigits(e.expires_at, 0) > clock
      [] cl.c = "tags_overlap" ->
            \E i \in 1..Len(e.tags) : \E j \in 1..Len(values[cl.idx].v) :
                e.tags[i] = values[cl.idx].v[j]
      [] cl.c = "type_any" ->
            \E j \in 1..Len(values[cl.idx].v) : e.entry_type = values[cl.idx].v[j]
      [] cl.c = "fts_match" -> Contains(Document(e), values[cl.idx].v)

\* e sorts strictly before f under the ORDER BY key.
SortsBefore(q, e, f) ==
    LET tail == \/ e.importance > f.importance
                \/ e.importance = f.importance /\ e.created_at > f.created_at
        tie == e.importance = f.importance /\ e.created_at = f.created_at
    IN CASE q.orderBy.key = "importance" -> tail
         [] q.orderBy.key = "rank" ->
              LET ranked(re, rf) == re > rf \/ (re = rf /\ tail)
              IN ranked(Occurrences(Document(e), q.values[q.orderBy.idx].v),
                        Occurrences(Document(f), q.values[q.orderBy.idx].v))
         [] q.orderBy.key = "distance" ->
              LET ne == e.embedding = NoEmbedding
                  nf == f.embedding = NoEmbedding
                  nearer(de, df) == de < df \/ (de = df /\ tail)
              IN \/ ~ne /\ nf
                 \/ ne /\ nf /\ tail
                 \/ ~ne /\ ~nf /\ nearer(SqDistance(e.embedding, q.values[q.orderBy.idx].v),
                                          SqDistance(f.embedding, q.values[q.orderBy.idx].v))

SearchColumns == {"id", "context_pk", "entry_type", "title", "content", "tags",
                  "importance", "created_by", "metadata", "expires_at", "created_at"}

\* Every row sequence the engine may answer with: rows that satisfy all
\* clauses, sorted by the key (ties in any order), cut at the limit.
ExecuteSearch(ctxs, ents, q, clock) ==
    LET page(match, k) ==
            {r \in [1..k -> match] :
               /\ \A i, j \in 1..k : i < j => r[i] # r[j] /\ ~SortsBefore(q, r[j], r[i])
               /\ \A e \in match : (\A i \in 1..k : r[i] # e) =>
                     \A i \in 1..k : ~SortsBefore(q, e, r[i])}
        limited(match) == page(match, Min(q.values[q.limitIdx].v, Cardinality(match)))
    IN limited({e \in ents : \E c \in ctxs :
                   /\ e.context_pk = c.id
                   /\ \A i \in 1..Len(q.where) :
                          ClauseHolds(q.where[i], q.values, c, e, clock)})

searchEntries(ctxs, ents, storeOptions, clock, options) ==
    {[i \in 1..Len(r) |->
        stripRaw([f \in SearchColumns \cup {"raw_text"} |->
                     IF f = "raw_text" THEN NULL ELSE r[i][f]])] :
     r \in ExecuteSearch(ctxs, ents, buildSearchQuery(options, storeOptions.vectorEnabled),
                         clock)}

(***************************************************************************)
(* State.                                                                  *)
(***************************************************************************)
VARIABLES
    options,    \* McpHandlerOptions and StoreOptions, fixed at start-up
    contexts,   \* table contexts
    aliases,    \* table context_aliases
    entries,    \* table entries
    uuids,      \* number of ids drawn from crypto.randomUUID and stored
    created,    \* how many of them became the id of a context row
    now,        \* the engine's clock
    removed,    \* history: entry rows (id, owning key) removed by a context delete
    orphaned,   \* history: alias rows whose context a context delete removed
    last,       \* the last tools/call: name, arguments and response
    batch,      \* the JSON-RPC payload in flight: its requests and their responses
    inflight    \* store calls awaiting pool.query, per caller

vars == <<options, contexts, aliases, entries, uuids, created, now, removed, orphaned, last,
          batch, inflight>>

(***************************************************************************)
(* mcp.ts: responses                                                       *)
(***************************************************************************)
NoData == [found |-> FALSE]

toolResult(data, warnings) == [code |-> 0, msg |-> "", data |-> data, warnings |-> warnings]

\* handleRpcRequest's catch: ValidationError -> -32602, any other Error -> -32000
errorResponse(code, msg) == [code |-> code, msg |-> msg, data |-> NoData, warnings |-> <<>>]

ValidationError(msg) == errorResponse(-32602, msg)

InternalError(msg) == errorResponse(-32000, msg)

Unchanged(resp) ==
    [resp |-> resp, contexts |-> contexts, aliases |-> aliases,
     entries |-> entries, uuids |-> uuids]

FirstError(results) ==
    LET bad == {i \in 1..Len(results) : ~results[i].ok} IN
    IF bad = {} THEN "" ELSE results[CHOOSE i \in bad : \A j \in bad : i <= j].err

JTruthy(value) ==
    CASE value.k \in {"undefined", "null"} -> FALSE
      [] value.k = "string" -> value.v # <<>>
      [] value.k = "number" -> value.v # 0
      [] value.k = "boolean" -> value.v
      [] OTHER -> TRUE

asObject(value) == value.k = "object"

latestEntryId(entryType) == options.policy.latestEntryPrefix \o entryType

resolveContextParams_explicitWins(params) ==
    LET hasNamespace == params.namespace.k \notin {"undefined", "null"}
        hasContextId == params.context_id.k \notin {"undefined", "null"}
        bad(msg) == [ok |-> FALSE, err |-> msg, namespace |-> NULL, contextId |-> NULL]
        explicit(ns, id) ==
            IF ~ns.ok THEN bad(ns.err)
            ELSE IF ~id.ok THEN bad(id.err)
            ELSE [ok |-> TRUE, err |-> "", namespace |-> ns.v, contextId |-> id.v]
    IN IF ~hasNamespace \/ ~hasContextId
       THEN bad("namespace and context_id are required")
       ELSE explicit(normalizeNamespace(params.namespace),
                     normalizeContextId(params.context_id))

resolveContextParams(params) ==
    LET hasAlias == params.alias.k \notin {"undefined", "null"}
        hasNamespace == params.namespace.k \notin {"undefined", "null"}
        hasContextId == params.context_id.k \notin {"undefined", "null"}
        bad(msg) == [ok |-> FALSE, err |-> msg, namespace |-> NULL, contextId |-> NULL]
        target(resolved) ==
            IF resolved = NotResolved THEN bad("alias not found")
            ELSE [ok |-> TRUE, err |-> "", namespace |-> resolved.namespace,
                  contextId |-> resolved.context_id]
        byAlias(alias) ==
            IF ~alias.ok THEN bad(alias.err)
            ELSE target(resolveContextAlias(aliases, alias.v))
        explicit(ns, id) ==
            IF ~ns.ok THEN bad(ns.err)
            ELSE IF ~id.ok THEN bad(id.err)
            ELSE [ok |-> TRUE, err |-> "", namespace |-> ns.v, contextId |-> id.v]
    IN IF hasAlias
       THEN IF hasNamespace \/ hasContextId
            THEN bad("provide alias or namespace/context_id, not both")
            ELSE byAlias(normalizeAlias(params.alias))
       ELSE IF ~hasNamespace \/ ~hasContextId
            THEN bad("namespace and context_id are required")
       ELSE explicit(normalizeNamespace(params.namespace),
                     normalizeContextId(params.context_id))

TagNamespacePrefix == <<"n","a","m","e","s","p","a","c","e",":">>

TagContextPrefix == <<"c","o","n","t","e","x","t",":">>

applyTagPolicy_replace(tags, namespace, contextId) ==
    LET baseTags == <<TagNamespacePrefix \o namespace, TagContextPrefix \o contextId>>
        policy(normalized, warnings) ==
            IF ~normalized.ok
            THEN [ok |-> FALSE, err |-> normalized.err, tags |-> <<>>, warnings |-> warnings]
            ELSE IF options.policy.requireTags /\ Len(normalized.v) = 0
                 THEN [ok |-> FALSE, err |-> "tags are required", tags |-> <<>>,
                       warnings |-> warnings]
            ELSE [ok |-> TRUE, err |-> "", tags |-> normalized.v, warnings |-> warnings]
        tagged(updated) ==
            policy(normalizeTags(JArr([i \in 1..Len(updated) |-> JStr(updated[i])]), 64, 160),
                   IF options.policy.autoTag /\ Len(updated) # Len(tags)
                   THEN <<"auto-tagged">> ELSE <<>>)
    IN tagged(IF options.policy.autoTag THEN baseTags ELSE tags)
applyTagPolicy(tags, namespace, contextId) ==
    LET baseTags == <<TagNamespacePrefix \o namespace, TagContextPrefix \o contextId>>
        policy(normalized, warnings) ==
            IF ~normalized.ok
            THEN [ok |-> FALSE, err |-> normalized.err, tags |-> <<>>, warnings |-> warnings]
            ELSE IF options.policy.requireTags /\ Len(normalized.v) = 0
                 THEN [ok |-> FALSE, err |-> "tags are required", tags |-> <<>>,
                       warnings |-> warnings]
            ELSE [ok |-> TRUE, err |-> "", tags |-> normalized.v, warnings |-> warnings]
        tagged(updated) ==
            policy(normalizeTags(JArr([i \in 1..Len(updated) |-> JStr(updated[i])]), 64, 160),
                   IF options.policy.autoTag /\ Len(updated) # Len(tags)
                   THEN <<"auto-tagged">> ELSE <<>>)
    IN tagged(IF options.policy.autoTag THEN Unique(tags \o baseTags, {}) ELSE tags)

normalizeLimit(value, max) ==
    IF value.k \in {"undefined", "null"} THEN [ok |-> TRUE, v |-> NoLimit, err |-> ""]
    ELSE LET positive(num) ==
                 IF num.nan \/ num.n <= 0
                 THEN [ok |-> FALSE, v |-> NoLimit, err |-> "limit must be a positive number"]
                 ELSE [ok |-> TRUE, v |-> Limit(Min(num.n \div 10, max)), err |-> ""]
         IN positive(ToNumber(value))

normalizeSearchMode_ftsOnly(value) == [ok |-> TRUE, v |-> "fts", err |-> ""]

normalizeSearchMode(value) ==
    IF value.k \in {"undefined", "null"} THEN [ok |-> TRUE, v |-> "fts", err |-> ""]
    ELSE IF value.k = "string" /\ value.v = <<"f","t","s">>
         THEN [ok |-> TRUE, v |-> "fts", err |-> ""]
    ELSE IF value.k = "string" /\ value.v = <<"v","e","c","t","o","r">>
         THEN [ok |-> TRUE, v |-> "vector", err |-> ""]
    ELSE IF value.k = "string" /\ value.v = <<"h","y","b","r","i","d">>
         THEN [ok |-> TRUE, v |-> "hybrid", err |-> ""]
    ELSE [ok |-> FALSE, v |-> "fts", err |-> "search_mode must be fts, vector, or hybrid"]

normalizeEntryTypes(value) ==
    IF value.k \in {"undefined", "null"} THEN Ok(<<>>)
    ELSE IF value.k # "array" THEN Fail("types must be an array of strings")
    ELSE LET typed(cleaned) ==
                 [i \in 1..Len(cleaned) |->
                     IF cleaned[i].ok THEN normalizeEntryType(JStr(cleaned[i].v))
                     ELSE cleaned[i]]
             result(mapped, types) ==
                 IF FirstError(mapped) # "" THEN Fail(FirstError(mapped))
                 ELSE IF FirstError(types) # "" THEN Fail(FirstError(types))
                 ELSE Ok(Unique([i \in 1..Len(types) |-> types[i].v], {}))
             filtered(mapped) ==
                 result(mapped, typed(SelectSeq(mapped, LAMBDA r : ~r.ok \/ Truthy(r.v))))
         IN filtered([i \in 1..Len(value.v) |->
                         normalizeOptionalString(value.v[i], "type", 20)])

(***************************************************************************)
(* mcp.ts: handleToolCall.  Each case yields the set of outcomes           *)
(* (response and tables after the call) the engine may produce.            *)
(***************************************************************************)
context_create(params) ==
    LET result(r) ==
            {[resp |-> toolResult(r.row, <<>>), contexts |-> r.contexts,
              aliases |-> aliases, entries |-> entries, uuids |-> r.uuids]}
        create(namespace, contextId, description, tags, scope, owner, metadata, err) ==
            IF err # "" THEN {Unchanged(ValidationError(err))}
            ELSE result(createContext(contexts, uuids, now,
                     [namespace |-> namespace.v, context_id |-> contextId.v,
                      description |-> description.v, tags |-> tags.v,
                      scope |-> scope.v, owner |-> owner.v, metadata |-> metadata.v]))
        normalized(namespace, contextId, description, tags, scope, owner, metadata) ==
            create(namespace, contextId, description, tags, scope, owner, metadata,
                   FirstError(<<namespace, contextId, description, tags, scope, owner,
                                metadata>>))
    IN normalized(normalizeNamespace(params.namespace),
                  normalizeContextId(params.context_id),
                  normalizeOptionalString(params.description, "description", 500),
                  IF params.tags.k = "undefined" THEN Ok(NULL_TAGS)
                  ELSE normalizeTags(params.tags, 32, 32),
                  IF params.scope.k = "undefined" THEN Ok(NULL)
                  ELSE normalizeScope(params.scope),
                  normalizeOptionalString(params.owner, "owner", 120),
                  IF params.metadata.k = "undefined" THEN Ok(NULL_OBJ)
                  ELSE normalizeMetadata(params.metadata))

context_delete(params) ==
    LET result(r) ==
            {[resp |-> toolResult([deleted |-> r.deleted], <<>>), contexts |-> r.contexts,
              aliases |-> aliases, entries |-> r.entries, uuids |-> uuids]}
        delete(ctx) ==
            IF ~ctx.ok THEN {Unchanged(ValidationError(ctx.err))}
            ELSE result(deleteContext(contexts, entries,
                     [namespace |-> ctx.namespace, context_id |-> ctx.contextId]))
    IN delete(resolveContextParams(params))

context_alias_set(params) ==
    LET result(r) ==
            {[resp |-> toolResult(r.row, <<>>), contexts |-> contexts,
              aliases |-> r.aliases, entries |-> entries, uuids |-> uuids]}
        set(alias, namespace, contextId, err) ==
            IF err # "" THEN {Unchanged(ValidationError(err))}
            ELSE result(setContextAlias(aliases, [alias |-> alias.v,
                     namespace |-> namespace.v, context_id |-> contextId.v]))
        normalized(alias, namespace, contextId) ==
            set(alias, namespace, contextId, FirstError(<<alias, namespace, contextId>>))
    IN normalized(normalizeAlias(params.alias), normalizeNamespace(params.namespace),
                  normalizeContextId(params.context_id))

context_alias_get(params) ==
    LET found(result) ==
            {Unchanged(toolResult(IF result = NotResolved THEN NoData ELSE result, <<>>))}
        get(alias) ==
            IF ~alias.ok THEN {Unchanged(ValidationError(alias.err))}
            ELSE found(resolveContextAlias(aliases, alias.v))
    IN get(normalizeAlias(params.alias))

context_alias_delete(params) ==
    LET result(r) ==
            {[resp |-> toolResult([deleted |-> r.deleted], <<>>), contexts |-> contexts,
              aliases |-> r.aliases, entries |-> entries, uuids |-> uuids]}
        delete(alias) ==
            IF ~alias.ok THEN {Unchanged(ValidationError(alias.err))}
            ELSE result(deleteContextAlias(aliases, [alias |-> alias.v]))
    IN delete(normalizeAlias(params.alias))

\* normalizeEntryType(normalizeRequiredString(entry_type, "entry_type", 20))
RequiredEntryType(value) ==
    LET typed(t) == IF t.ok THEN normalizeEntryType(JStr(t.v)) ELSE t
    IN typed(normalizeRequiredString(value, "entry_type", 20))

\* The field normalisations shared by entry_upsert and entry_latest_upsert.
EntryFields(entryParams) ==
    [title |-> normalizeOptionalString(entryParams.title, "title", 200),
     content |-> normalizeRequiredString(entryParams.content, "content",
                                         options.policy.maxContentChars),
     tags |-> normalizeTags(entryParams.tags, 64, 160),
     importance |-> normalizeImportance(entryParams.importance),
     created_by |-> normalizeOptionalString(entryParams.created_by, "created_by", 120),
     expires_at |-> normalizeOptionalString(entryParams.expires_at, "expires_at", 64),
     raw_text |-> normalizeOptionalString(entryParams.raw_text, "raw_text", 20000),
     embedding |-> normalizeEmbedding(entryParams.embedding),
     metadata |-> normalizeMetadata(entryParams.metadata)]

EntryFieldsError(f) ==
    FirstError(<<f.title, f.content, f.tags, f.importance, f.created_by,
                 f.expires_at, f.raw_text, f.embedding, f.metadata>>)

EntryWarnings(content, raw_text) ==
    (IF Len(content) * 10 > options.policy.maxContentChars * 8
     THEN <<"content length is near the limit">> ELSE <<>>)
    \o (IF Truthy(raw_text) THEN <<"raw_text stored">> ELSE <<>>)

\* The store's tables are what the store call left, whether it returned or threw.
StoreOutcome(r, warnings) ==
    {[resp |-> IF r.ok THEN toolResult(r.row, warnings) ELSE InternalError(r.err),
      contexts |-> contexts, aliases |-> aliases, entries |-> r.entries,
      uuids |-> r.uuids]}

StoreEntry_noGate(ctx, entry, tags, warnings) ==
    IF ~tags.ok THEN {Unchanged(ValidationError(tags.err))}
    ELSE StoreOutcome(
            upsertEntry(contexts, entries, uuids, options.store, now,
                        [namespace |-> ctx.namespace, context_id |-> ctx.contextId,
                         entry |-> entry]),
            warnings)

\* The tail shared by both upserts: tag policy outcome, embedding gate, store call.
StoreEntry(ctx, entry, tags, warnings) ==
    IF ~tags.ok THEN {Unchanged(ValidationError(tags.err))}
    ELSE IF entry.embedding # NoEmbedding /\ ~options.vectorEnabled
         THEN {Unchanged(ValidationError(
                 "embedding provided but pgvector is not enabled on this server"))}
    ELSE StoreOutcome(
            upsertEntry(contexts, entries, uuids, options.store, now,
                        [namespace |-> ctx.namespace, context_id |-> ctx.contextId,
                         entry |-> entry]),
            warnings)

EntryRecord(entryId, entryType, f, tags) ==
    [entry_id |-> entryId, entry_type |-> entryType, title |-> f.title.v,
     content |-> f.content.v, tags |-> tags.tags, importance |-> f.importance.v,
     created_by |-> f.created_by.v, expires_at |-> f.expires_at.v,
     raw_text |-> f.raw_text.v, embedding |-> f.embedding.v, metadata |-> f.metadata.v]

entry_upsert(params) ==
    LET policy(ctx, entryType, entryId, f, tags, force, forcedId) ==
            StoreEntry(ctx,
                       EntryRecord(IF force THEN forcedId ELSE entryId.v, entryType.v, f,
                                   tags),
                       tags,
                       tags.warnings
                       \o EntryWarnings(f.content.v, f.raw_text.v)
                       \o (IF force /\ Truthy(entryId.v) /\ entryId.v # forcedId
                           THEN <<"entry_id overridden">> ELSE <<>>))
        fields(ctx, entryParams, entryType, entryId, f, err, fieldErr) ==
            IF JTruthy(entryParams.raw_text) /\ ~options.policy.allowRawText
            THEN {Unchanged(ValidationError("raw_text is disabled on this server"))}
            ELSE IF err # "" THEN {Unchanged(ValidationError(err))}
            ELSE IF fieldErr # "" THEN {Unchanged(ValidationError(fieldErr))}
            ELSE policy(ctx, entryType, entryId, f,
                        applyTagPolicy(f.tags.v, ctx.namespace, ctx.contextId),
                        options.policy.forceLatestSummary /\ entryType.v = T_summary,
                        latestEntryId(entryType.v))
        normalized(ctx, entryParams, entryType, entryId, f) ==
            fields(ctx, entryParams, entryType, entryId, f,
                   FirstError(<<entryType, entryId>>), EntryFieldsError(f))
        upsert(ctx) ==
            IF ~ctx.ok THEN {Unchanged(ValidationError(ctx.err))}
            ELSE IF ~asObject(params.entry)
                 THEN {Unchanged(ValidationError("arguments must be an object"))}
            ELSE normalized(ctx, params.entry.v,
                            RequiredEntryType(params.entry.v.entry_type),
                            normalizeOptionalString(params.entry.v.entry_id, "entry_id", 64),
                            EntryFields(params.entry.v))
    IN upsert(resolveContextParams(params))

entry_latest_upsert(params) ==
    LET policy(ctx, entryType, providedId, f, tags, forcedId) ==
            StoreEntry(ctx,
                       EntryRecord(forcedId, entryType.v, f, tags),
                       tags,
                       (IF Truthy(providedId.v) /\ providedId.v # forcedId
                        THEN <<"entry_id overridden">> ELSE <<>>)
                       \o tags.warnings
                       \o EntryWarnings(f.content.v, f.raw_text.v))
        fields(ctx, entryParams, entryType, providedId, f, err, fieldErr) ==
            IF JTruthy(entryParams.raw_text) /\ ~options.policy.allowRawText
            THEN {Unchanged(ValidationError("raw_text is disabled on this server"))}
            ELSE IF err # "" THEN {Unchanged(ValidationError(err))}
            ELSE IF fieldErr # "" THEN {Unchanged(ValidationError(fieldErr))}
            ELSE policy(ctx, entryType, providedId, f,
                        applyTagPolicy(f.tags.v, ctx.namespace, ctx.contextId),
                        latestEntryId(entryType.v))
        normalized(ctx, entryParams, entryType, providedId, f) ==
            fields(ctx, entryParams, entryType, providedId, f,
                   FirstError(<<entryType, providedId>>), EntryFieldsError(f))
        upsert(ctx) ==
            IF ~ctx.ok THEN {Unchanged(ValidationError(ctx.err))}
            ELSE IF ~asObject(params.entry)
                 THEN {Unchanged(ValidationError("arguments must be an object"))}
            ELSE normalized(ctx, params.entry.v,
                            RequiredEntryType(params.entry.v.entry_type),
                            normalizeOptionalString(params.entry.v.entry_id, "entry_id", 64),
                            EntryFields(params.entry.v))
    IN upsert(resolveContextParams(params))

EntryResult(entry) == toolResult(IF entry = NoRow THEN NoData ELSE entry, <<>>)

entry_latest_get(params) ==
    LET get(ctx, entryType) ==
            IF ~entryType.ok THEN {Unchanged(ValidationError(entryType.err))}
            ELSE {Unchanged(EntryResult(getEntry(contexts, entries,
                     [namespace |-> ctx.namespace, context_id |-> ctx.contextId,
                      entry_id |-> latestEntryId(entryType.v),
                      include_raw |-> JTruthy(params.include_raw)])))}
        addressed(ctx) ==
            IF ~ctx.ok THEN {Unchanged(ValidationError(ctx.err))}
            ELSE get(ctx, RequiredEntryType(params.entry_type))
    IN addressed(resolveContextParams(params))

entry_get_unexpired(params) ==
    LET get(ctx, entryId) ==
            IF ~entryId.ok THEN {Unchanged(ValidationError(entryId.err))}
            ELSE {Unchanged(EntryResult(getEntry(contexts,
                     {e \in entries : \/ e.expires_at = NULL
                                      \/ ParseDigits(e.expires_at, 0) > now},
                     [namespace |-> ctx.namespace, context_id |-> ctx.contextId,
                      entry_id |-> entryId.v,
                      include_raw |-> JTruthy(params.include_raw)])))}
        addressed(ctx) ==
            IF ~ctx.ok THEN {Unchanged(ValidationError(ctx.err))}
            ELSE get(ctx, normalizeRequiredString(params.entry_id, "entry_id", 64))
    IN addressed(resolveContextParams(params))

entry_get(params) ==
    LET get(ctx, entryId) ==
            IF ~entryId.ok THEN {Unchanged(ValidationError(entryId.err))}
            ELSE {Unchanged(EntryResult(getEntry(contexts, entries,
                     [namespace |-> ctx.namespace, context_id |-> ctx.contextId,
                      entry_id |-> entryId.v,
                      include_raw |-> JTruthy(params.include_raw)])))}
        addressed(ctx) ==
            IF ~ctx.ok THEN {Unchanged(ValidationError(ctx.err))}
            ELSE get(ctx, normalizeRequiredString(params.entry_id, "entry_id", 64))
    IN addressed(resolveContextParams(params))

entry_search(params) ==
    LET search(ctx, query, tags, types, limit, searchMode, embedding, err) ==
            IF err # "" THEN {Unchanged(ValidationError(err))}
            ELSE IF searchMode.v \in {"vector", "hybrid"} /\ embedding.v = NoEmbedding
                 THEN {Unchanged(ValidationError(
                         "embedding is required for vector or hybrid search"))}
            ELSE IF searchMode.v \in {"vector", "hybrid"} /\ ~options.vectorEnabled
                 THEN {Unchanged(ValidationError(
                         "vector search requested but pgvector is not enabled"))}
            ELSE {Unchanged(toolResult(rows, <<>>)) :
                    rows \in searchEntries(contexts, entries, options.store, now,
                       [namespace |-> ctx.namespace, context_id |-> ctx.contextId,
                        query |-> query.v, tags |-> tags.v, types |-> types.v,
                        limit |-> limit.v,
                        includeExpired |-> JTruthy(params.include_expired),
                        searchMode |-> searchMode.v, embedding |-> embedding.v])}
        normalized(ctx, query, tags, types, limit, searchMode, embedding) ==
            search(ctx, query, tags, types, limit, searchMode, embedding,
                   FirstError(<<query, tags, types, limit, searchMode, embedding>>))
        addressed(ctx) ==
            IF ~ctx.ok THEN {Unchanged(ValidationError(ctx.err))}
            ELSE normalized(ctx,
                            normalizeOptionalString(params.query, "query", 400),
                            normalizeTags(params.tags, 64, 160),
                            normalizeEntryTypes(params.types),
                            normalizeLimit(params.limit, 100),
                            normalizeSearchMode(params.search_mode),
                            normalizeEmbedding(params.embedding))
    IN addressed(resolveContextParams(params))

entry_delete(params) ==
    LET result(r) ==
            {[resp |-> toolResult([deleted |-> r.deleted], <<>>),
              contexts |-> contexts, aliases |-> aliases,
              entries |-> r.entries, uuids |-> uuids]}
        delete(ctx, entryId) ==
            IF ~entryId.ok THEN {Unchanged(ValidationError(entryId.err))}
            ELSE result(deleteEntry(contexts, entries,
                     [namespace |-> ctx.namespace, context_id |-> ctx.contextId,
                      entry_id |-> entryId.v]))
        addressed(ctx) ==
            IF ~ctx.ok THEN {Unchanged(ValidationError(ctx.err))}
            ELSE delete(ctx, normalizeRequiredString(params.entry_id, "entry_id", 64))
    IN addressed(resolveContextParams(params))

handleToolCall(name, params) ==
    CASE name = "context_create" -> context_create(params)
      [] name = "context_delete" -> context_delete(params)
      [] name = "context_alias_set" -> context_alias_set(params)
      [] name = "context_alias_get" -> context_alias_get(params)
      [] name = "context_alias_delete" -> context_alias_delete(params)
      [] name = "entry_upsert" -> entry_upsert(params)
      [] name = "entry_latest_upsert" -> entry_latest_upsert(params)
      [] name = "entry_latest_get" -> entry_latest_get(params)
      [] name = "entry_get" -> entry_get(params)
      [] name = "entry_search" -> entry_search(params)
      [] name = "entry_delete" -> entry_delete(params)
      [] OTHER -> {Unchanged(ValidationError("unknown tool"))}

(***************************************************************************)
(* Bounds and the arguments clients send.                                  *)
(***************************************************************************)
MaxContextInserts == 2

MaxEntryInserts == 2

PolicyMaxContentChars == 2

StoreMaxContentChars == 2

MaxClock == 2

LatestEntryPrefix == <<"l","a","t","e","s","t","-">>

Booleans == {TRUE, FALSE}

Configs ==
    {[vectorEnabled |-> ve,
      policy |-> [requireTags |-> rt, autoTag |-> at, allowRawText |-> ar,
                  forceLatestSummary |-> fl, latestEntryPrefix |-> LatestEntryPrefix,
                  maxContentChars |-> PolicyMaxContentChars],
      store |-> [maxContentChars |-> StoreMaxContentChars, maxTitleChars |-> 200,
                 maxRawChars |-> 20000, storeRawPlaintext |-> pt,
                 vectorEnabled |-> ve]] :
     ve \in Booleans, rt \in Booleans, at \in Booleans, ar \in Booleans,
     fl \in Booleans, pt \in Booleans}

NoParams ==
    [alias |-> JUndef, namespace |-> JUndef, context_id |-> JUndef,
     description |-> JUndef, tags |-> JUndef, scope |-> JUndef, owner |-> JUndef,
     metadata |-> JUndef, entry |-> JUndef, entry_type |-> JUndef,
     entry_id |-> JUndef, include_raw |-> JUndef, query |-> JUndef,
     types |-> JUndef, limit |-> JUndef, include_expired |-> JUndef,
     search_mode |-> JUndef, embedding |-> JUndef]

NoEntryParams ==
    [entry_id |-> JUndef, entry_type |-> JUndef, title |-> JUndef,
     content |-> JUndef, tags |-> JUndef, importance |-> JUndef,
     created_by |-> JUndef, expires_at |-> JUndef, raw_text |-> JUndef,
     embedding |-> JUndef, metadata |-> JUndef]

AliasArgs == {JUndef, JStr(<<"x">>)}

NamespaceArgs == {JUndef, JStr(<<"r">>)}

ContextIdArgs == {JUndef, JStr(<<"a">>), JStr(<<" ", "b">>)}

\* alias | namespace + context_id, in every combination of presence
Addressing ==
    {[NoParams EXCEPT !.alias = a, !.namespace = n, !.context_id = c] :
        a \in AliasArgs, n \in NamespaceArgs, c \in ContextIdArgs}

Explicit == {p \in Addressing : p.alias = JUndef /\ p.namespace # JUndef
                                /\ p.context_id # JUndef}

LatestSummaryId == LatestEntryPrefix \o T_summary

EntryIdArgs == {JUndef, JStr(Uuid(2)), JStr(Uuid(3)), JStr(LatestSummaryId)}

Entry(i, t, c, g) ==
    JObj([NoEntryParams EXCEPT !.entry_id = i, !.entry_type = JStr(t),
                               !.content = JStr(c), !.tags = g])

Tagged == JArr(<<JStr(<<"t">>)>>)

EntryArgs ==
    {Entry(i, T_summary, c, Tagged) : i \in EntryIdArgs, c \in {<<"A">>, <<"B">>}}
    \cup {Entry(i, T_decision, <<"A">>, Tagged) : i \in EntryIdArgs}
    \cup {Entry(JUndef, T_decision, <<"A">>, JUndef),
          JObj([Entry(JUndef, T_decision, <<"A">>, Tagged).v EXCEPT
                   !.raw_text = JStr(<<"w">>)]),
          Entry(JUndef, T_decision, <<"A", "B", "C">>, Tagged),
          JUndef}

(***************************************************************************)
(* One tools/call request, handled to completion; its response stays in    *)
(* `last` until it is delivered.                                           *)
(***************************************************************************)
NoCall == [name |-> "none", params |-> NoParams, resp |-> toolResult(NoData, <<>>)]

\* The callers whose store calls may overlap, and a caller with no call.
Callers == {"a", "b"}

NoStoreCall == [op |-> "none"]

NoCalls == [p \in Callers |-> NoStoreCall]

\* No payload is being handled.
NoBatch == [open |-> FALSE, array |-> FALSE, requests |-> <<>>, responses |-> <<>>,
            alone |-> <<>>]

\* The context a call names: by alias alone, or by namespace and context_id.
Addressed(params) ==
    LET none == [ok |-> FALSE, namespace |-> NULL, contextId |-> NULL] IN
    IF params.alias.k = "string" /\ params.namespace.k = "undefined"
       /\ params.context_id.k = "undefined"
    THEN LET hit == {a \in aliases : a.alias = Trim(params.alias.v)} IN
         IF hit = {} THEN none
         ELSE LET a == CHOOSE a \in hit : TRUE IN
              [ok |-> TRUE, namespace |-> a.namespace, contextId |-> a.context_id]
    ELSE IF params.alias.k = "undefined" /\ params.namespace.k = "string"
            /\ params.context_id.k = "string"
    THEN [ok |-> TRUE, namespace |-> Trim(params.namespace.v),
          contextId |-> Trim(params.context_id.v)]
    ELSE none

RowsAt(ctxs, key) ==
    {c \in ctxs : key.ok /\ c.namespace = key.namespace /\ c.context_id = key.contextId}

\* History: the entry rows owned by the context that a successful
\* context_delete removes.
RemovedBy(name, params, resp) ==
    IF name = "context_delete" /\ resp.code = 0 /\ resp.data.deleted
    THEN {[id |-> e.id, namespace |-> c.namespace, context_id |-> c.context_id] :
             <<e, c>> \in {x \in entries \X RowsAt(contexts, Addressed(params)) :
                               x[1].context_pk = x[2].id}}
    ELSE {}

\* History: the alias rows that point at the context a successful
\* context_delete removes.
OrphanedBy(name, params, resp) ==
    IF name = "context_delete" /\ resp.code = 0 /\ resp.data.deleted
    THEN {a \in aliases : \E c \in RowsAt(contexts, Addressed(params)) :
                             a.namespace = c.namespace /\ a.context_id = c.context_id}
    ELSE {}

\* What a handler's store calls leave behind, for one request.
Commit(name, params, o) ==
    LET ctxIns == Cardinality(o.contexts \ contexts) IN
    /\ created + ctxIns <= MaxContextInserts
    /\ (o.uuids - uuids) - ctxIns <= MaxEntryInserts - (uuids - created)
    /\ contexts' = o.contexts
    /\ aliases' = o.aliases
    /\ entries' = o.entries
    /\ uuids' = o.uuids
    /\ created' = created + (IF o.uuids > uuids THEN ctxIns ELSE 0)
    /\ removed' = removed \cup RemovedBy(name, params, o.resp)
    /\ orphaned' = orphaned \cup OrphanedBy(name, params, o.resp)
    /\ UNCHANGED <<options, now, inflight>>

ToolCall(name, params, o) ==
    /\ Commit(name, params, o)
    /\ last' = [name |-> name, params |-> params, resp |-> o.resp]
    /\ UNCHANGED batch

\* No request is being handled.
Idle == last.name = "none"

\* The response is written to the client.
Reply ==
    /\ last.name # "none"
    /\ last' = NoCall
    /\ UNCHANGED <<options, contexts, aliases, entries, uuids, created, now, removed,
                   orphaned, batch,
                   inflight>>

InitStore ==
    /\ contexts = {}
    /\ aliases = {}
    /\ entries = {}
    /\ uuids = 0
    /\ created = 0
    /\ now = 0
    /\ removed = {}
    /\ orphaned = {}
    /\ last = NoCall
    /\ batch = NoBatch
    /\ inflight = NoCalls

(***************************************************************************)
(* Spec: entries written, read and deleted in two contexts, under every    *)
(* policy configuration.                                                   *)
(***************************************************************************)
EntryConfigs == {c \in Configs : ~c.vectorEnabled /\ c.store.storeRawPlaintext}

Init == options \in EntryConfigs /\ InitStore

ContextCreate ==
    /\ Idle
    /\ \E params \in
            Explicit :
          \E o \in handleToolCall("context_create", params) :
              ToolCall("context_create", params, o)

ContextDelete ==
    /\ Idle
    /\ \E params \in
            Explicit :
          \E o \in handleToolCall("context_delete", params) :
              ToolCall("context_delete", params, o)

EntryUpsert ==
    /\ Idle
    /\ \E params \in
            {[a EXCEPT !.entry = e] : a \in Explicit, e \in EntryArgs} :
          \E o \in handleToolCall("entry_upsert", params) :
              ToolCall("entry_upsert", params, o)

EntryLatestUpsert ==
    /\ Idle
    /\ \E params \in
            {[a EXCEPT !.entry = e] : a \in Explicit, e \in EntryArgs} :
          \E o \in handleToolCall("entry_latest_upsert", params) :
              ToolCall("entry_latest_upsert", params, o)

EntryGet ==
    /\ Idle
    /\ \E params \in
            {[a EXCEPT !.entry_id = i] :
            a \in Explicit, i \in EntryIdArgs} :
          \E o \in handleToolCall("entry_get", params) :
              ToolCall("entry_get", params, o)

EntryLatestGet ==
    /\ Idle
    /\ \E params \in
            {[a EXCEPT !.entry_type = JStr(t)] :
            a \in Explicit, t \in {T_summary, T_decision}} :
          \E o \in handleToolCall("entry_latest_get", params) :
              ToolCall("entry_latest_get", params, o)

EntrySearch ==
    /\ Idle
    /\ \E params \in
            {[a EXCEPT !.types = t] :
            a \in Explicit,
            t \in {JUndef, JArr(<<JStr(T_decision)>>)}} :
          \E o \in handleToolCall("entry_search", params) :
              ToolCall("entry_search", params, o)

EntryDelete ==
    /\ Idle
    /\ \E params \in
            {[a EXCEPT !.entry_id = i] :
            a \in Explicit, i \in EntryIdArgs} :
          \E o \in handleToolCall("entry_delete", params) :
              ToolCall("entry_delete", params, o)

Next ==
    \/ ContextCreate
    \/ ContextDelete
    \/ EntryUpsert
    \/ EntryLatestUpsert
    \/ EntryGet
    \/ EntryLatestGet
    \/ EntrySearch
    \/ EntryDelete
    \/ Reply

Spec == Init /\ [][Next]_vars

(***************************************************************************)
(* Vocabulary of the properties.  A call is observed in the step that      *)
(* handles it: unprimed variables are the tables before the call, last'    *)
(* is the call and its response, primed tables are the tables after it.    *)
(***************************************************************************)
IsCall(call, names) == call.name \in names

\* the context row a call addresses, looked up before the call
TargetRows(call) == RowsAt(contexts, Addressed(call.params))

TargetExists(call) == TargetRows(call) # {}

TargetPk(call) == IF TargetExists(call) THEN (CHOOSE c \in TargetRows(call) : TRUE).id ELSE NULL

EntriesOf(ents, pk) == {e \in ents : e.context_pk = pk}

ArgString(value) == IF value.k = "string" THEN Trim(value.v) ELSE NULL

HasEntry(call) == call.params.entry.k = "object"

ArgEntryType(call) == ArgString(call.params.entry.v.entry_type)

ArgContent(call) == ArgString(call.params.entry.v.content)

ArgEntryId(call) == ArgString(call.params.entry.v.entry_id)

\* an entry that passes normalisation, the policy engine and the store's
\* length ceilings under the running configuration
ValidEntry(call) ==
    /\ HasEntry(call)
    /\ ArgEntryType(call) \in ENTRY_TYPES
    /\ Truthy(ArgContent(call))
    /\ Len(ArgContent(call)) <= options.policy.maxContentChars
    /\ Len(ArgContent(call)) <= options.store.maxContentChars
    /\ call.params.entry.v.raw_text.k = "undefined"
    /\ call.params.entry.v.embedding.k = "undefined"
    /\ \/ call.params.entry.v.tags = Tagged
       \/ ~options.policy.requireTags
       \/ options.policy.autoTag

Forced(call) ==
    \/ call.name = "entry_latest_upsert"
    \/ options.policy.forceLatestSummary /\ ArgEntryType(call) = T_summary

\* the entry id the handler passes to upsertEntry
PassedEntryId(call) ==
    IF Forced(call) THEN latestEntryId(ArgEntryType(call)) ELSE ArgEntryId(call)

Ids(ents) == {e.id : e \in ents}

(***************************************************************************)
(* C1.  On an existing context that holds no summary entry, or only the    *)
(* one stored under <latestEntryPrefix>summary, a valid                    *)
(* entry_latest_upsert of a summary succeeds and leaves exactly one        *)
(* summary entry in the context, under that id, with the content sent      *)
(* (so upserting A and then B leaves one summary with content B).          *)
(***************************************************************************)
C1_LatestUpsertTwice ==
    [][(/\ IsCall(last', {"entry_latest_upsert"})
        /\ TargetExists(last')
        /\ ValidEntry(last')
        /\ ArgEntryType(last') = T_summary
        /\ \A e \in EntriesOf(entries, TargetPk(last')) :
              e.entry_type = T_summary => e.id = LatestSummaryId)
       => /\ last'.resp.code = 0
          /\ \E e \in EntriesOf(entries', TargetPk(last')) :
                /\ e.id = LatestSummaryId
                /\ e.content = ArgContent(last')
                /\ \A f \in EntriesOf(entries', TargetPk(last')) :
                      f.entry_type = T_summary => f = e]_vars

(***************************************************************************)
(* C2 as stated.  Every valid entry sent to entry_upsert without an        *)
(* entry_id, addressed to an existing context, is inserted as one new row  *)
(* of that context under an id that no stored entry has; no existing row   *)
(* is updated.                                                             *)
(***************************************************************************)
InsertedFresh(call) ==
    /\ call.resp.code = 0
    /\ \E e \in entries' :
          /\ e.id \notin Ids(entries)
          /\ e.id = call.resp.data.id
          /\ e.context_pk = TargetPk(call)
          /\ e.entry_type = ArgEntryType(call)
          /\ e.content = ArgContent(call)
          /\ entries' = entries \cup {e}

C2_Original ==
    [][(/\ IsCall(last', {"entry_upsert"})
        /\ TargetExists(last')
        /\ ValidEntry(last')
        /\ ArgEntryId(last') = NULL)
       => InsertedFresh(last')]_vars

(***************************************************************************)
(* C2 amended.  The same, for every entry that is not a summary written    *)
(* while forceLatestSummary is on (such a summary is sent to the store     *)
(* under the forced id <latestEntryPrefix>summary, on the update path).    *)
(***************************************************************************)
C2_InsertWithoutId ==
    [][(/\ IsCall(last', {"entry_upsert"})
        /\ TargetExists(last')
        /\ ValidEntry(last')
        /\ ArgEntryId(last') = NULL
        /\ ~Forced(last'))
       => InsertedFresh(last')]_vars

C2_Witness ==
    /\ IsCall(last, {"entry_upsert"})
    /\ HasEntry(last) /\ ArgEntryId(last) = NULL
    /\ options.policy.forceLatestSummary
    /\ last.resp.code = 0
    /\ \E e \in entries : e.id = last.resp.data.id /\ Cardinality(entries) = 2

C4_UpsertMissingContext ==
    [][(/\ IsCall(last', {"entry_upsert", "entry_latest_upsert"})
        /\ Addressed(last'.params).ok
        /\ ~TargetExists(last'))
       => /\ last'.resp.code # 0
          /\ ValidEntry(last') =>
                /\ last'.resp.code = -32000
                /\ last'.resp.msg = "context not found; create it first"
          /\ contexts' = contexts
          /\ entries' = entries]_vars

C4_Witness ==
    /\ IsCall(last, {"entry_upsert", "entry_latest_upsert"})
    /\ last.resp.msg = "context not found; create it first"
    /\ contexts # {}
    /\ entries # {}

(***************************************************************************)
(* C10.  Once a context delete has reported deleted = true, none of the    *)
(* entries the context owned is stored any more, and no entry_get,         *)
(* entry_latest_get or entry_search answers with one of them, also after   *)
(* a context with the same key has been created again.                     *)
(***************************************************************************)
RemovedIds == {r.id : r \in removed}

C10_DeleteCascades ==
    /\ \A e \in entries : e.id \notin RemovedIds
    /\ (IsCall(last, {"entry_get", "entry_latest_get"}) /\ last.resp.code = 0
        /\ "id" \in DOMAIN last.resp.data)
       => last.resp.data.id \notin RemovedIds
    /\ (IsCall(last, {"entry_search"}) /\ last.resp.code = 0)
       => \A i \in 1..Len(last.resp.data) : last.resp.data[i].id \notin RemovedIds

\* an entry of a deleted context is asked for by id after a context with the
\* same key has been created again
C10_Witness ==
    /\ IsCall(last, {"entry_get"})
    /\ \E r \in removed :
          /\ r.id = ArgString(last.params.entry_id)
          /\ Addressed(last.params) = [ok |-> TRUE, namespace |-> r.namespace,
                                       contextId |-> r.context_id]
    /\ TargetExists(last)
    /\ last.resp.code = 0

(***************************************************************************)
(* C12.  Whatever entry_id the caller supplies, a valid                    *)
(* entry_latest_upsert into an existing context that succeeds leaves the   *)
(* entry under <latestEntryPrefix><entry_type> in that context and         *)
(* changes no row under another id; and when the supplied id differs from  *)
(* that id the call still succeeds, with an "entry_id overridden"          *)
(* warning.                                                                *)
(***************************************************************************)
C12_LatestUpsertForcedId ==
    [][(/\ IsCall(last', {"entry_latest_upsert"})
        /\ TargetExists(last')
        /\ ValidEntry(last'))
       => /\ last'.resp.code = 0 =>
                /\ \E e \in EntriesOf(entries', TargetPk(last')) :
                      /\ e.id = latestEntryId(ArgEntryType(last'))
                      /\ e.content = ArgContent(last')
                /\ \A e \in (entries' \ entries) \cup (entries \ entries') :
                      e.id = latestEntryId(ArgEntryType(last'))
          /\ (Truthy(ArgEntryId(last'))
              /\ ArgEntryId(last') # latestEntryId(ArgEntryType(last')))
             => /\ last'.resp.code = 0
                /\ \E i \in 1..Len(last'.resp.warnings) :
                      last'.resp.warnings[i] = "entry_id overridden"]_vars

(***************************************************************************)
(* SpecCtx: one context created, updated with every combination of         *)
(* optional attributes, deleted and created again.                         *)
(***************************************************************************)
CtxConfigs ==
    {c \in Configs : ~c.vectorEnabled /\ c.store.storeRawPlaintext
                     /\ c.policy.requireTags /\ c.policy.autoTag
                     /\ ~c.policy.allowRawText /\ c.policy.forceLatestSummary}

DescriptionArgs == {JUndef, JNull, JStr(<<"d">>), JStr(<<" ", "e">>), JStr(<<" ">>)}

OwnerArgs == {JUndef, JStr(<<"o">>), JStr(<<"p">>)}

CtxTagArgs == {JUndef, JNull, JArr(<<JStr(<<"t">>)>>),
               JArr(<<JStr(<<"s">>), JStr(<<"t">>), JStr(<<"s">>)>>)}

MetadataArgs == {JUndef, JObj({<<"k", "1">>}), JObj({<<"k", "2">>, <<"m", "1">>}), JObj({})}

ScopeArgs == {JUndef, JStr(S_local)}

CtxCreateArgs ==
    {[NoParams EXCEPT !.namespace = JStr(<<"r">>), !.context_id = JStr(<<"a">>),
                      !.description = d, !.owner = o, !.tags = g,
                      !.metadata = m, !.scope = sc] :
        d \in DescriptionArgs, o \in OwnerArgs, g \in CtxTagArgs,
        m \in MetadataArgs, sc \in ScopeArgs}

InitCtx == options \in CtxConfigs /\ InitStore

CtxCreate ==
    /\ Idle
    /\ \E params \in
            CtxCreateArgs :
          \E o \in handleToolCall("context_create", params) :
              ToolCall("context_create", params, o)

CtxDelete ==
    /\ Idle
    /\ \E params \in
            {[NoParams EXCEPT !.namespace = JStr(<<"r">>), !.context_id = JStr(<<"a">>)]} :
          \E o \in handleToolCall("context_delete", params) :
              ToolCall("context_delete", params, o)

NextCtx == CtxCreate \/ CtxDelete \/ Reply

SpecCtx == InitCtx /\ [][NextCtx]_vars

\* a context_create that finds the addressed context already stored
Recreates(call) == IF IsCall(call, {"context_create"}) THEN TargetRows(call) ELSE {}

RowAfter(old) == CHOOSE c \in contexts' : c.id = old.id

Supplied(value) ==
    IF value.k = "string" /\ Trim(value.v) # <<>> THEN Trim(value.v) ELSE NULL

(***************************************************************************)
(* C5.  context_create on a stored context replaces the stored tags by     *)
(* the supplied tag list when the call carries one and leaves them as      *)
(* they were when the call carries no tags.                                *)
(***************************************************************************)
C5_TagsKeptWhenOmitted ==
    [][\A old \in Recreates(last') :
          /\ last'.resp.code = 0
          /\ \E c \in contexts' : c.id = old.id
          /\ last'.params.tags.k = "undefined" => RowAfter(old).tags = old.tags
          /\ last'.params.tags.k = "array" =>
                RowAfter(old).tags = normalizeTags(last'.params.tags, 32, 32).v]_vars

(***************************************************************************)
(* C6.  context_create on a stored context replaces description and owner  *)
(* each exactly when the new value is non-null; a null, blank or absent    *)
(* value keeps what is stored.                                             *)
(***************************************************************************)
C6_DescriptionOwnerCoalesce ==
    [][\A old \in Recreates(last') :
          /\ last'.resp.code = 0
          /\ \E c \in contexts' : c.id = old.id
          /\ RowAfter(old).description =
                IF Supplied(last'.params.description) # NULL
                THEN Supplied(last'.params.description) ELSE old.description
          /\ RowAfter(old).owner =
                IF Supplied(last'.params.owner) # NULL
                THEN Supplied(last'.params.owner) ELSE old.owner]_vars

\* a stored description survives a call that sends none while the owner changes
C6_Witness ==
    /\ IsCall(last, {"context_create"})
    /\ last.params.description.k \in {"undefined", "null"}
    /\ Supplied(last.params.owner) = <<"p">>
    /\ \E c \in contexts : c.description = <<"e">> /\ c.owner = <<"p">>

(***************************************************************************)
(* C7.  context_create on a stored context merges metadata key-wise:       *)
(* every supplied key holds the supplied value, every stored key that is   *)
(* not supplied keeps its value, no other key appears, and a call without  *)
(* metadata leaves the stored metadata unchanged.                          *)
(***************************************************************************)
SuppliedMetadata(call) ==
    IF call.params.metadata.k = "object" THEN call.params.metadata.v ELSE {}

C7_MetadataMerged ==
    [][\A old \in Recreates(last') :
          LET new == RowAfter(old).metadata
              sent == SuppliedMetadata(last')
          IN /\ last'.resp.code = 0
             /\ \A pr \in sent : pr \in new
             /\ \A pr \in old.metadata : pr[1] \notin Keys(sent) => pr \in new
             /\ \A pr \in new : pr \in sent \/ pr \in old.metadata
             /\ \A pr, qr \in new : pr[1] = qr[1] => pr = qr
             /\ sent = {} => new = old.metadata]_vars

\* key k is overwritten while key m, not supplied, is kept
C7_Witness ==
    /\ IsCall(last, {"context_create"})
    /\ SuppliedMetadata(last) = {<<"k", "1">>}
    /\ \E c \in contexts : c.metadata = {<<"k", "1">>, <<"m", "1">>}

(***************************************************************************)
(* SpecAddr: the context-addressed tools called with every combination of  *)
(* alias, namespace and context_id, while contexts and the alias come and  *)
(* go.                                                                     *)
(***************************************************************************)
AddrConfigs ==
    {c \in Configs : ~c.vectorEnabled /\ c.store.storeRawPlaintext
                     /\ ~c.policy.requireTags /\ c.policy.autoTag
                     /\ c.policy.allowRawText /\ ~c.policy.forceLatestSummary}

AddrEntryArgs == {Entry(JUndef, T_decision, <<"A">>, Tagged)}

AddrEntryIdArgs == {JStr(Uuid(1)), JStr(Uuid(2))}

InitAddr == options \in AddrConfigs /\ InitStore

AddrContextCreate ==
    /\ Idle
    /\ \E params \in
            Explicit :
          \E o \in handleToolCall("context_create", params) :
              ToolCall("context_create", params, o)

AddrAliasSet ==
    /\ Idle
    /\ \E params \in
            {[a EXCEPT !.alias = JStr(<<"x">>)] : a \in Explicit} :
          \E o \in handleToolCall("context_alias_set", params) :
              ToolCall("context_alias_set", params, o)

AddrAliasGet ==
    /\ Idle
    /\ \E params \in
            {[NoParams EXCEPT !.alias = JStr(<<"x">>)]} :
          \E o \in handleToolCall("context_alias_get", params) :
              ToolCall("context_alias_get", params, o)

AddrAliasDelete ==
    /\ Idle
    /\ \E params \in
            {[NoParams EXCEPT !.alias = JStr(<<"x">>)]} :
          \E o \in handleToolCall("context_alias_delete", params) :
              ToolCall("context_alias_delete", params, o)

AddrContextDelete ==
    /\ Idle
    /\ \E params \in
            Addressing :
          \E o \in handleToolCall("context_delete", params) :
              ToolCall("context_delete", params, o)

AddrEntryUpsert ==
    /\ Idle
    /\ \E params \in
            {[a EXCEPT !.entry = e] : a \in Addressing, e \in AddrEntryArgs} :
          \E o \in handleToolCall("entry_upsert", params) :
              ToolCall("entry_upsert", params, o)

AddrEntryLatestUpsert ==
    /\ Idle
    /\ \E params \in
            {[a EXCEPT !.entry = e] : a \in Addressing, e \in AddrEntryArgs} :
          \E o \in handleToolCall("entry_latest_upsert", params) :
              ToolCall("entry_latest_upsert", params, o)

AddrEntryLatestGet ==
    /\ Idle
    /\ \E params \in
            {[a EXCEPT !.entry_type = JStr(T_decision)] : a \in Addressing} :
          \E o \in handleToolCall("entry_latest_get", params) :
              ToolCall("entry_latest_get", params, o)

AddrEntryGet ==
    /\ Idle
    /\ \E params \in
            {[a EXCEPT !.entry_id = i] :
            a \in Addressing, i \in AddrEntryIdArgs} :
          \E o \in handleToolCall("entry_get", params) :
              ToolCall("entry_get", params, o)

AddrEntrySearch ==
    /\ Idle
    /\ \E params \in
            Addressing :
          \E o \in handleToolCall("entry_search", params) :
              ToolCall("entry_search", params, o)

AddrEntryDelete ==
    /\ Idle
    /\ \E params \in
            {[a EXCEPT !.entry_id = i] :
            a \in Addressing, i \in AddrEntryIdArgs} :
          \E o \in handleToolCall("entry_delete", params) :
              ToolCall("entry_delete", params, o)

NextAddr ==
    \/ AddrContextCreate
    \/ AddrAliasSet
    \/ AddrAliasGet
    \/ AddrAliasDelete
    \/ AddrContextDelete
    \/ AddrEntryUpsert
    \/ AddrEntryLatestUpsert
    \/ AddrEntryLatestGet
    \/ AddrEntryGet
    \/ AddrEntrySearch
    \/ AddrEntryDelete
    \/ Reply

SpecAddr == InitAddr /\ [][NextAddr]_vars

ContextAddressedTools ==
    {"context_delete", "entry_upsert", "entry_latest_upsert", "entry_latest_get",
     "entry_get", "entry_search", "entry_delete"}

Given(value) == value.k \notin {"undefined", "null"}

\* the alias row a call names, if the table holds one
AliasRows(als, call) ==
    {a \in als : call.params.alias.k = "string" /\ a.alias = Trim(call.params.alias.v)}

(***************************************************************************)
(* C8.  Once a context has been deleted, context_alias_get on an alias     *)
(* that still points at it answers "not found" and does not return the     *)
(* deleted (namespace, context_id).                                        *)
(***************************************************************************)
C8_DanglingAliasNotFound ==
    IsCall(last, {"context_alias_get"}) =>
        \A a \in AliasRows(aliases, last) \cap orphaned :
            RowsAt(contexts, [ok |-> TRUE, namespace |-> a.namespace,
                              contextId |-> a.context_id]) = {}
            => /\ last.resp.code = 0
               /\ "found" \in DOMAIN last.resp.data
               /\ ~last.resp.data.found

(***************************************************************************)
(* C9.  In each context-addressed tool a call fails with -32602 and the    *)
(* store is left untouched when it gives an alias together with namespace  *)
(* or context_id, when it gives no alias and lacks namespace or            *)
(* context_id, and when its alias is not in the alias table.               *)
(***************************************************************************)
AliasAndExplicit(call) ==
    Given(call.params.alias) /\ (Given(call.params.namespace) \/ Given(call.params.context_id))

NeitherComplete(call) ==
    ~Given(call.params.alias)
    /\ (~Given(call.params.namespace) \/ ~Given(call.params.context_id))

AliasUnknown(als, call) ==
    /\ Given(call.params.alias)
    /\ ~Given(call.params.namespace) /\ ~Given(call.params.context_id)
    /\ AliasRows(als, call) = {}

C9_AddressingErrors ==
    [][IsCall(last', ContextAddressedTools)
       /\ (AliasAndExplicit(last') \/ NeitherComplete(last') \/ AliasUnknown(aliases, last'))
       => /\ last'.resp.code = -32602
          /\ UNCHANGED <<contexts, aliases, entries, uuids>>]_vars

\* context_delete naming a stored context both by alias and by key is refused
C9_Witness ==
    /\ IsCall(last, {"context_delete"})
    /\ AliasAndExplicit(last)
    /\ Given(last.params.namespace) /\ Given(last.params.context_id)
    /\ AliasRows(aliases, last) # {}
    /\ RowsAt(contexts, [ok |-> TRUE, namespace |-> Trim(last.params.namespace.v),
                         contextId |-> Trim(last.params.context_id.v)]) # {}
    /\ entries # {}
    /\ last.resp.code = -32602

(***************************************************************************)
(* C11.  Every tools/call that answers with an error, -32602 from          *)
(* normalisation or policy or -32000 from the store, leaves the contexts,  *)
(* aliases and entries tables exactly as they were before the call.        *)
(***************************************************************************)
C11_ErrorLeavesStore ==
    [][(last'.name # "none" /\ last'.resp.code # 0)
       => /\ last'.resp.code \in {-32602, -32000}
          /\ contexts' = contexts
          /\ aliases' = aliases
          /\ entries' = entries]_vars

\* the store refuses an update of a missing entry while all three tables hold rows
C11_Witness ==
    /\ IsCall(last, {"entry_latest_upsert"})
    /\ last.resp.code = -32000
    /\ last.resp.msg = "entry not found for context"
    /\ contexts # {} /\ aliases # {} /\ entries # {}

(***************************************************************************)
(* SpecRaw: entries written with and without raw text, inserted and        *)
(* updated, and read back with and without include_raw, on deployments     *)
(* that store raw text compressed and as plaintext.                        *)
(***************************************************************************)
RawConfigs ==
    {c \in Configs : ~c.vectorEnabled /\ ~c.policy.requireTags /\ ~c.policy.autoTag
                     /\ ~c.policy.forceLatestSummary}

RawTextArgs == {JUndef, JStr(<<"w", "v">>), JStr(<<" ", "w">>), JStr(<<"w", " ">>),
                JStr(<<" ">>)}

RawEntryIdArgs == {JUndef, JStr(Uuid(2)), JStr(Uuid(3))}

RawEntryArgs ==
    {JObj([Entry(i, T_decision, <<"A">>, JUndef).v EXCEPT !.raw_text = w]) :
        i \in RawEntryIdArgs, w \in RawTextArgs}

InitRaw == options \in RawConfigs /\ InitStore

RawEntryUpsert ==
    /\ Idle
    /\ \E params \in
            {[a EXCEPT !.entry = e] : a \in Explicit, e \in RawEntryArgs} :
          \E o \in handleToolCall("entry_upsert", params) :
              ToolCall("entry_upsert", params, o)

RawEntryGet ==
    /\ Idle
    /\ \E params \in
            {[a EXCEPT !.entry_id = i, !.include_raw = r] :
                a \in Explicit, i \in RawEntryIdArgs \ {JUndef},
                r \in {JUndef, JBool(TRUE)}} :
          \E o \in handleToolCall("entry_get", params) :
              ToolCall("entry_get", params, o)

RawEntrySearch ==
    /\ Idle
    /\ \E params \in Explicit :
          \E o \in handleToolCall("entry_search", params) :
              ToolCall("entry_search", params, o)

NextRaw == ContextCreate \/ RawEntryUpsert \/ RawEntryGet \/ RawEntrySearch \/ Reply

SpecRaw == InitRaw /\ [][NextRaw]_vars

\* a successful entry write that carried a raw_text string
WroteRaw(call) ==
    /\ IsCall(call, {"entry_upsert", "entry_latest_upsert"})
    /\ call.resp.code = 0
    /\ HasEntry(call)
    /\ call.params.entry.v.raw_text.k = "string"

\* what the store reads, with include_raw = true, for the entry the call
\* wrote in the context it addressed, from the tables ctxs and ents
ReadBack(ctxs, ents, call) ==
    getEntry(ctxs, ents, [namespace |-> Addressed(call.params).namespace,
                          context_id |-> Addressed(call.params).contextId,
                          entry_id |-> call.resp.data.id,
                          include_raw |-> TRUE])

(***************************************************************************)
(* C13 as stated.  After an entry write that carried raw_text, reading     *)
(* the entry with include_raw = true returns exactly the text the caller   *)
(* sent, character for character, under compressed and under plaintext     *)
(* storage.                                                                *)
(***************************************************************************)
C13_Original ==
    [][WroteRaw(last')
       => ReadBack(contexts', entries', last').raw_text
             = last'.params.entry.v.raw_text.v]_vars

(***************************************************************************)
(* C13 amended.  The read returns the text the caller sent with its        *)
(* leading and trailing whitespace removed (null when nothing remains),    *)
(* character for character, under compressed and under plaintext storage;  *)
(* the row holds that text in exactly one of raw_text and raw_compressed.  *)
(***************************************************************************)
C13_RawRoundTrip ==
    [][WroteRaw(last')
       => /\ ReadBack(contexts', entries', last').id = last'.resp.data.id
          /\ ReadBack(contexts', entries', last').raw_text =
                IF Trim(last'.params.entry.v.raw_text.v) = <<>> THEN NULL
                ELSE Trim(last'.params.entry.v.raw_text.v)
          /\ \A e \in entries' :
                e.id = last'.resp.data.id =>
                    e.raw_text = NULL \/ e.raw_compressed = NULL]_vars

\* an update replaced the raw text of a stored entry on a deployment that
\* compresses, and the text sent had a leading blank
C13_Witness ==
    /\ WroteRaw(last)
    /\ ~options.store.storeRawPlaintext
    /\ last.params.entry.v.raw_text.v = <<" ", "w">>
    /\ Truthy(ArgEntryId(last))
    /\ \E e \in entries : e.id = ArgEntryId(last) /\ e.raw_compressed # NULL
                           /\ e.raw_text = NULL

(***************************************************************************)
(* SpecVec: entries written with and without an embedding and searched in  *)
(* every search mode, on deployments with and without vector capability.   *)
(***************************************************************************)
VecConfigs ==
    {c \in Configs : c.store.storeRawPlaintext /\ ~c.policy.allowRawText
                     /\ ~c.policy.requireTags /\ ~c.policy.autoTag
                     /\ ~c.policy.forceLatestSummary}

EmbeddingArgs == {JUndef, JArr(<<>>), JArr(<<JNum(10)>>), JArr(<<JStr(<<"x">>)>>)}

VecEntryArgs ==
    {JObj([Entry(i, T_decision, <<"A">>, JUndef).v EXCEPT !.embedding = m]) :
        i \in {JUndef, JStr(Uuid(2))}, m \in EmbeddingArgs}
    \cup {JObj([Entry(JUndef, T_decision, <<"A", "A">>, JUndef).v EXCEPT
                   !.embedding = JArr(<<JNum(50)>>)]),
          JObj([Entry(JUndef, T_decision, <<"B">>, JUndef).v EXCEPT
                   !.embedding = JArr(<<JNum(10)>>)])}

SearchModeArgs == {JUndef, JStr(<<"f","t","s">>), JStr(<<"v","e","c","t","o","r">>),
                   JStr(<<"h","y","b","r","i","d">>), JStr(<<"v">>)}

InitVec == options \in VecConfigs /\ InitStore

VecEntryUpsert ==
    /\ Idle
    /\ \E params \in
            {[a EXCEPT !.entry = e] : a \in Explicit, e \in VecEntryArgs} :
          \E o \in handleToolCall("entry_upsert", params) :
              ToolCall("entry_upsert", params, o)

VecEntryLatestUpsert ==
    /\ Idle
    /\ \E params \in
            {[a EXCEPT !.entry = e] : a \in Explicit, e \in VecEntryArgs} :
          \E o \in handleToolCall("entry_latest_upsert", params) :
              ToolCall("entry_latest_upsert", params, o)

VecEntrySearch ==
    /\ Idle
    /\ \E params \in
            {[a EXCEPT !.search_mode = sm, !.embedding = m, !.query = q] :
                a \in Explicit, sm \in SearchModeArgs, m \in EmbeddingArgs,
                q \in {JUndef, JStr(<<"A">>)}} :
          \E o \in handleToolCall("entry_search", params) :
              ToolCall("entry_search", params, o)

NextVec ==
    \/ ContextCreate
    \/ VecEntryUpsert
    \/ VecEntryLatestUpsert
    \/ VecEntrySearch
    \/ Reply

SpecVec == InitVec /\ [][NextVec]_vars

\* a JSON array with at least one element
NonEmptyArray(value) == value.k = "array" /\ Len(value.v) > 0

Numeric(value) == \A i \in 1..Len(value.v) : value.v[i].k = "number"

(***************************************************************************)
(* C14.  On a deployment without vector capability every entry write that  *)
(* carries a non-empty embedding fails and leaves the entries as they      *)
(* were, with the validation error "embedding provided but pgvector is     *)
(* not enabled on this server" when nothing else is wrong with the call;   *)
(* and no stored entry ever has an embedding.                              *)
(***************************************************************************)
C14_NoEmbeddingWithoutVector ==
    [][~options.vectorEnabled
       => /\ \A e \in entries' : e.embedding = NoEmbedding
          /\ (/\ IsCall(last', {"entry_upsert", "entry_latest_upsert"})
              /\ HasEntry(last')
              /\ NonEmptyArray(last'.params.entry.v.embedding))
             => /\ last'.resp.code # 0
                /\ entries' = entries
                /\ Numeric(last'.params.entry.v.embedding)
                   => /\ last'.resp.code = -32602
                      /\ last'.resp.msg =
                           "embedding provided but pgvector is not enabled on this server"]_vars

\* an update that carries an embedding is refused for a stored entry
C14_Witness ==
    /\ ~options.vectorEnabled
    /\ IsCall(last, {"entry_upsert"})
    /\ NonEmptyArray(last.params.entry.v.embedding)
    /\ TargetExists(last)
    /\ ArgEntryId(last) \in Ids(EntriesOf(entries, TargetPk(last)))
    /\ last.resp.code = -32602

\* search_mode is literally "vector" or "hybrid"
VectorMode(call) ==
    /\ call.params.search_mode.k = "string"
    /\ call.params.search_mode.v \in {<<"v","e","c","t","o","r">>, <<"h","y","b","r","i","d">>}

\* no embedding, or an empty one
NoEmbeddingGiven(call) ==
    \/ call.params.embedding.k \in {"undefined", "null"}
    \/ call.params.embedding.k = "array" /\ Len(call.params.embedding.v) = 0

(***************************************************************************)
(* C15.  An entry_search in vector or hybrid mode fails with a validation  *)
(* error (-32602) when it carries no embedding or an empty one, and also   *)
(* when the deployment lacks vector capability, with or without an         *)
(* embedding; the response carries no rows and the tables are untouched.   *)
(* With an addressed context and a well-formed embedding the messages are  *)
(* "embedding is required ..." and "vector search requested ...".          *)
(***************************************************************************)
C15_VectorSearchRefused ==
    [][(/\ IsCall(last', {"entry_search"})
        /\ VectorMode(last')
        /\ NoEmbeddingGiven(last') \/ ~options.vectorEnabled)
       => /\ last'.resp.code = -32602
          /\ last'.resp.data = NoData
          /\ UNCHANGED <<contexts, aliases, entries, uuids>>
          /\ NoEmbeddingGiven(last')
             => last'.resp.msg = "embedding is required for vector or hybrid search"
          /\ (NonEmptyArray(last'.params.embedding) /\ Numeric(last'.params.embedding))
             => last'.resp.msg = "vector search requested but pgvector is not enabled"]_vars

\* a hybrid search with an embedding and free text, over a context that
\* holds a matching entry, is refused because the deployment has no vectors
C15_Witness ==
    /\ IsCall(last, {"entry_search"})
    /\ last.params.search_mode = JStr(<<"h","y","b","r","i","d">>)
    /\ NonEmptyArray(last.params.embedding) /\ Numeric(last.params.embedding)
    /\ last.params.query = JStr(<<"A">>)
    /\ ~options.vectorEnabled
    /\ EntriesOf(entries, TargetPk(last)) # {}
    /\ last.resp.msg = "vector search requested but pgvector is not enabled"

(***************************************************************************)
(* SpecSearch: entries of several types, with and without tags and an      *)
(* expiry instant, inserted into two contexts and searched with every      *)
(* combination of the types, tags and include_expired filters while the    *)
(* clock advances.                                                         *)
(***************************************************************************)
SrchConfigs ==
    {c \in Configs : ~c.vectorEnabled /\ c.store.storeRawPlaintext
                     /\ ~c.policy.allowRawText /\ ~c.policy.requireTags
                     /\ ~c.policy.autoTag /\ ~c.policy.forceLatestSummary}

SrchEntryArgs ==
    {Entry(JUndef, T_decision, <<"X">>, Tagged),
     JObj([Entry(JUndef, T_fact, <<"Y">>, Tagged).v EXCEPT !.expires_at = JStr(<<"1">>)]),
     JObj([Entry(JUndef, T_decision, <<"Z">>, JUndef).v EXCEPT
              !.expires_at = JStr(<<"1">>)])}

SrchTypesArgs == {JUndef, JArr(<<JStr(T_decision)>>)}

SrchTagsArgs == {JUndef, Tagged}

InitSearch == options \in SrchConfigs /\ InitStore

\* the engine's now() moves on between requests
Tick ==
    /\ Idle
    /\ now < MaxClock
    /\ now' = now + 1
    /\ UNCHANGED <<options, contexts, aliases, entries, uuids, created, removed,
                   orphaned, last, batch,
                   inflight>>

SrchEntryUpsert ==
    /\ Idle
    /\ \E params \in
            {[a EXCEPT !.entry = e] : a \in Explicit, e \in SrchEntryArgs} :
          \E o \in handleToolCall("entry_upsert", params) :
              ToolCall("entry_upsert", params, o)

SrchEntrySearch ==
    /\ Idle
    /\ \E params \in
            {[a EXCEPT !.types = t, !.tags = g, !.include_expired = x] :
                a \in Explicit, t \in SrchTypesArgs, g \in SrchTagsArgs,
                x \in {JUndef, JBool(TRUE)}} :
          \E o \in handleToolCall("entry_search", params) :
              ToolCall("entry_search", params, o)

NextSearch ==
    \/ ContextCreate
    \/ SrchEntryUpsert
    \/ SrchEntrySearch
    \/ Tick
    \/ Reply

SpecSearch == InitSearch /\ [][NextSearch]_vars

\* the strings of a filter argument, empty when the filter is not given
FilterOf(value) ==
    IF value.k = "array" THEN {value.v[i].v : i \in 1..Len(value.v)} ELSE {}

\* the entry's expiry instant has passed
Expired(e) == e.expires_at # NULL /\ ParseDigits(e.expires_at, 0) <= now

\* the stored entries an entry_search on the call's context and filters is
\* to return
Wanted(call) ==
    {e \in EntriesOf(entries, TargetPk(call)) :
        /\ TargetExists(call)
        /\ FilterOf(call.params.types) # {} => e.entry_type \in FilterOf(call.params.types)
        /\ FilterOf(call.params.tags) # {} =>
              \E i \in 1..Len(e.tags) : e.tags[i] \in FilterOf(call.params.tags)
        /\ call.params.include_expired = JUndef => ~Expired(e)}

(***************************************************************************)
(* C16.  A successful entry_search on context C returns each entry of C    *)
(* that passes its filters exactly once and nothing else: no entry of      *)
(* another context, none whose type is outside a given types filter, none  *)
(* that shares no tag with a given tags filter, and none whose expires_at  *)
(* has passed unless include_expired is set.  So a search for decisions    *)
(* in a context whose only decision is "X" returns exactly that entry.     *)
(***************************************************************************)
C16_SearchScopedAndFiltered ==
    (IsCall(last, {"entry_search"}) /\ last.resp.code = 0)
    => /\ {last.resp.data[i].id : i \in 1..Len(last.resp.data)} = Ids(Wanted(last))
       /\ Len(last.resp.data) = Cardinality(Wanted(last))
       /\ \A i \in 1..Len(last.resp.data) : \E e \in Wanted(last) :
             /\ e.id = last.resp.data[i].id
             /\ e.content = last.resp.data[i].content
             /\ e.entry_type = last.resp.data[i].entry_type

\* the context holds the decision "X" and a decision whose expiry has
\* passed, and the search for decisions returns exactly the one entry "X"
C16_Witness ==
    /\ IsCall(last, {"entry_search"})
    /\ last.params.types = JArr(<<JStr(T_decision)>>)
    /\ last.params.tags = JUndef /\ last.params.include_expired = JUndef
    /\ last.resp.code = 0
    /\ Len(last.resp.data) = 1
    /\ last.resp.data[1].content = <<"X">>
    /\ \E e \in EntriesOf(entries, TargetPk(last)) :
          e.entry_type = T_decision /\ Expired(e)

(***************************************************************************)
(* SpecQuery: the query builder applied to every combination of search     *)
(* options, with and without vector capability.                            *)
(***************************************************************************)
QueryConfigs ==
    {c \in Configs : c.store.storeRawPlaintext /\ ~c.policy.allowRawText
                     /\ ~c.policy.requireTags /\ ~c.policy.autoTag
                     /\ ~c.policy.forceLatestSummary}

SearchOptionArgs ==
    [namespace : {<<"r">>},
     context_id : {<<"a">>},
     query : {NULL, <<"A">>, <<" ", "A">>, <<" ">>},
     tags : {<<>>, <<(<<"t">>)>>},
     types : {<<>>, <<T_decision>>},
     limit : {NoLimit, Limit(1), Limit(100), Limit(101), Limit(500)},
     includeExpired : Booleans,
     searchMode : {"undefined", "fts", "vector", "hybrid"},
     embedding : {NoEmbedding, <<10, 20>>}]

InitQuery == options \in QueryConfigs /\ InitStore

\* searchEntries builds the query for the options it was given
BuildSearchQuery ==
    /\ Idle
    /\ \E o \in SearchOptionArgs :
          last' = [name |-> "buildSearchQuery", params |-> o,
                   resp |-> buildSearchQuery(o, options.store.vectorEnabled)]
    /\ UNCHANGED <<options, contexts, aliases, entries, uuids, created, now, removed,
                   orphaned, batch,
                   inflight>>

NextQuery == BuildSearchQuery \/ Reply

SpecQuery == InitQuery /\ [][NextQuery]_vars

Built == last.name = "buildSearchQuery"

\* the values of the parameter list, in order
Values(q) == [i \in 1..Len(q.values) |-> q.values[i].v]

(***************************************************************************)
(* C17.  For every combination of search options the last element of the   *)
(* parameter list is the limit, the LIMIT placeholder is the number of     *)
(* that last position, and the limit is the smaller of 100 and the         *)
(* requested limit (20 when none is requested), hence never above 100.     *)
(***************************************************************************)
C17_LimitLastAndClamped ==
    Built =>
        /\ Len(last.resp.values) > 0
        /\ last.resp.limitIdx = Len(last.resp.values)
        /\ Values(last.resp)[Len(last.resp.values)] =
              (IF ~last.params.limit.has THEN 20
               ELSE IF last.params.limit.n > 100 THEN 100
               ELSE last.params.limit.n)
        /\ Values(last.resp)[Len(last.resp.values)] <= 100

\* a limit of 500 behind every optional parameter
C17_Witness ==
    /\ Built
    /\ last.params.limit = Limit(500)
    /\ Len(last.resp.values) = 7
    /\ Values(last.resp)[7] = 100

\* the free text of the options without its surrounding whitespace
TrimmedText(o) == IF o.query = NULL THEN <<>> ELSE Trim(o.query)

RequestedLimit(o) ==
    IF ~o.limit.has THEN 20 ELSE IF o.limit.n > 100 THEN 100 ELSE o.limit.n

\* the parameter list the options call for, vec telling whether the query
\* orders by vector distance
ExpectedValues(o, vec) ==
    <<o.namespace, o.context_id>>
    \o (IF Len(o.tags) > 0 THEN <<o.tags>> ELSE <<>>)
    \o (IF Len(o.types) > 0 THEN <<o.types>> ELSE <<>>)
    \o (IF TrimmedText(o) # <<>> THEN <<TrimmedText(o)>> ELSE <<>>)
    \o (IF vec THEN <<o.embedding>> ELSE <<>>)
    \o <<RequestedLimit(o)>>

\* the option a WHERE clause or ORDER BY key compares with its placeholder
Operand(o, kind) ==
    CASE kind = "namespace" -> o.namespace
      [] kind = "context_id" -> o.context_id
      [] kind = "tags_overlap" -> o.tags
      [] kind = "type_any" -> o.types
      [] kind \in {"fts_match", "rank"} -> TrimmedText(o)
      [] kind = "distance" -> o.embedding

(***************************************************************************)
(* C18.  The parameter list is namespace, context_id, the tags filter if   *)
(* non-empty, the types filter if non-empty, the trimmed free text if      *)
(* non-empty, the embedding if the query orders by vector distance, and    *)
(* the limit, in this order and with nothing else; every placeholder $k    *)
(* of a WHERE clause, of the ORDER BY key and of LIMIT is the position of  *)
(* the value it is meant to compare with; tags, types and embedding are    *)
(* passed on as they were given.                                           *)
(***************************************************************************)
C18_ParameterOrder ==
    Built =>
        /\ Values(last.resp) =
              ExpectedValues(last.params, last.resp.orderBy.key = "distance")
        /\ \A i \in 1..Len(last.resp.where) :
              last.resp.where[i].idx # 0 =>
                 /\ last.resp.where[i].idx \in 1..Len(last.resp.values)
                 /\ Values(last.resp)[last.resp.where[i].idx]
                      = Operand(last.params, last.resp.where[i].c)
        /\ last.resp.orderBy.idx # 0 =>
              /\ last.resp.orderBy.idx \in 1..Len(last.resp.values)
              /\ Values(last.resp)[last.resp.orderBy.idx]
                   = Operand(last.params, last.resp.orderBy.key)
        /\ last.resp.orderBy.idx = 0 <=> last.resp.orderBy.key = "importance"
        /\ Values(last.resp)[last.resp.limitIdx] = RequestedLimit(last.params)

\* every optional parameter is present and the free text needed trimming
C18_Witness ==
    /\ Built
    /\ last.params.query = <<" ", "A">>
    /\ Len(last.resp.values) = 7
    /\ Values(last.resp)[5] = <<"A">>
    /\ Values(last.resp)[6] = last.params.embedding
    /\ \E i \in 1..Len(last.resp.where) :
          last.resp.where[i].c = "fts_match" /\ last.resp.where[i].idx = 5

\* the options ask for vector ordering and the deployment can give it
VectorOrdering(o) ==
    /\ options.store.vectorEnabled
    /\ o.searchMode \in {"vector", "hybrid"}
    /\ Len(o.embedding) > 0

(***************************************************************************)
(* C19.  The ordering is distance to the query embedding ascending, then   *)
(* importance descending, then creation time descending, exactly when the  *)
(* mode is vector or hybrid, vector capability is enabled and a non-empty  *)
(* embedding is given; otherwise text rank descending, then importance,    *)
(* then creation time, exactly when non-blank free text is given;          *)
(* otherwise importance descending, then creation time descending.         *)
(***************************************************************************)
C19_OrderingKey ==
    Built =>
        /\ last.resp.orderBy.key =
              (IF VectorOrdering(last.params) THEN "distance"
               ELSE IF TrimmedText(last.params) # <<>> THEN "rank"
               ELSE "importance")
        /\ last.resp.orderBy.dir =
              (IF VectorOrdering(last.params) THEN "ASC" ELSE "DESC")
        /\ last.resp.orderBy.then =
              (IF VectorOrdering(last.params) \/ TrimmedText(last.params) # <<>>
               THEN <<"importance DESC", "created_at DESC">>
               ELSE <<"created_at DESC">>)
        /\ last.resp.orderBy.key = "distance" =>
              Values(last.resp)[last.resp.orderBy.idx] = last.params.embedding
        /\ last.resp.orderBy.key = "rank" =>
              Values(last.resp)[last.resp.orderBy.idx] = TrimmedText(last.params)

\* hybrid mode with an embedding and free text falls back to the text rank
\* when the deployment has no vector capability
C19_Witness ==
    /\ Built
    /\ ~options.store.vectorEnabled
    /\ last.params.searchMode = "hybrid"
    /\ Len(last.params.embedding) > 0
    /\ last.params.query = <<"A">>
    /\ last.resp.orderBy.key = "rank"

\* a hybrid search that was answered
HybridAnswered(call) ==
    /\ IsCall(call, {"entry_search"})
    /\ call.params.search_mode = JStr(<<"h","y","b","r","i","d">>)
    /\ call.resp.code = 0

\* the free text of a search, empty when none is given
SearchText(call) ==
    IF call.params.query.k = "string" THEN Trim(call.params.query.v) ELSE <<>>

\* the text occurs in the entry's title or content
Mentions(e, text) ==
    \E i \in 1..Len(e.content) : \E j \in i..Len(e.content) :
        SubSeq(e.content, i, j) = text

\* the stored entry behind a result row
Stored(row) == CHOOSE e \in entries : e.id = row.id

\* the options the search handler hands to the store for the call
SearchOptionsOf(call) ==
    [namespace |-> Addressed(call.params).namespace,
     context_id |-> Addressed(call.params).contextId,
     query |-> IF SearchText(call) = <<>> THEN NULL ELSE SearchText(call),
     tags |-> <<>>, types |-> <<>>, limit |-> NoLimit, includeExpired |-> FALSE,
     searchMode |-> "hybrid",
     embedding |-> [i \in 1..Len(call.params.embedding.v) |->
                       call.params.embedding.v[i].v]]

HasClause(q, kind) == \E i \in 1..Len(q.where) : q.where[i].c = kind

(***************************************************************************)
(* C20.  A hybrid search with free text and an embedding, on a deployment  *)
(* with vector capability, keeps the full-text predicate among its         *)
(* filters, so that it returns exactly the entries of the context that     *)
(* match the text, and orders them by vector distance, nearest first,      *)
(* not by text rank; a hybrid search without free text has no full-text    *)
(* predicate and returns every entry of the context.                       *)
(***************************************************************************)
C20_HybridFiltersByText ==
    HybridAnswered(last) =>
        LET rows == last.resp.data
            q == buildSearchQuery(SearchOptionsOf(last), options.store.vectorEnabled)
            mine == EntriesOf(entries, TargetPk(last))
        IN /\ options.vectorEnabled
           /\ q.orderBy.key = "distance"
           /\ HasClause(q, "fts_match") <=> SearchText(last) # <<>>
           /\ {rows[i].id : i \in 1..Len(rows)} =
                 Ids({e \in mine : TargetExists(last)
                                   /\ (SearchText(last) # <<>>
                                       => Mentions(e, SearchText(last)))})
           /\ \A i, j \in 1..Len(rows) :
                 i < j =>
                    /\ rows[i].id # rows[j].id
                    /\ Stored(rows[i]).embedding = NoEmbedding
                       => Stored(rows[j]).embedding = NoEmbedding
                    /\ (Stored(rows[i]).embedding # NoEmbedding
                        /\ Stored(rows[j]).embedding # NoEmbedding)
                       => SqDistance(Stored(rows[i]).embedding, q.values[q.orderBy.idx].v)
                          <= SqDistance(Stored(rows[j]).embedding,
                                        q.values[q.orderBy.idx].v)

\* the entry "A" lies nearer to the query embedding than the entry "AA",
\* which holds the text twice: the nearer one comes first
C20_Witness ==
    /\ HybridAnswered(last)
    /\ SearchText(last) = <<"A">>
    /\ Len(last.resp.data) = 2
    /\ last.resp.data[1].content = <<"A">>
    /\ last.resp.data[2].content = <<"A", "A">>
    /\ Stored(last.resp.data[1]).embedding # NoEmbedding

(***************************************************************************)
(* mcp.ts: the JSON-RPC envelope, handleRpcRequest and handleJsonRpc.      *)
(* A request is a JSON value; a response carries id, result and error,     *)
(* the member it does not have being Absent.  The names of the catalogue   *)
(* (tools, resource uri, prompt) are single symbols of a string.           *)
(***************************************************************************)
Absent == [absent |-> TRUE]

\* handleRpcRequest resolved to null
NoResponse == [null |-> TRUE]

\* the item's handler has not settled yet
Pending == [pending |-> TRUE]

RpcResult(id, result) == [id |-> id, result |-> result, error |-> Absent]

RpcError_internalOnly(id, code, message) ==
    [id |-> id, result |-> Absent, error |-> [code |-> -32000, message |-> message]]

\* errorResponse(id, code, message)
RpcError(id, code, message) ==
    [id |-> id, result |-> Absent, error |-> [code |-> code, message |-> message]]

\* request?.id ?? null
RequestId(request) ==
    IF request.k # "object" THEN JNull
    ELSE IF request.v.id.k = "undefined" THEN JNull
    ELSE request.v.id

Tools == {"context_create", "context_list", "context_delete", "context_alias_set",
          "context_alias_list", "context_alias_get", "context_alias_delete",
          "entry_upsert", "entry_latest_upsert", "entry_latest_get", "entry_get",
          "entry_search", "entry_delete"}

InstructionsUri == <<"memory://instructions">>

InstructionsPrompt == <<"memory_instructions">>

\* a name that is one symbol long names that symbol
Symbol(name) == IF Len(name) = 1 THEN name[1] ELSE "?"

\* the response that wraps what handleToolCall returned or threw
Wrapped(id, o) ==
    [o EXCEPT !.resp = IF o.resp.code = 0
                       THEN RpcResult(id, [data |-> o.resp.data,
                                           warnings |-> o.resp.warnings])
                       ELSE RpcError(id, o.resp.code, o.resp.msg)]

handleRpcRequest(request) ==
    LET invalid ==
            \/ request.k # "object"
            \/ ~(request.v.jsonrpc.k = "string" /\ request.v.jsonrpc.v = "2.0")
            \/ request.v.method.k \in {"undefined", "null"}
            \/ (request.v.method.k = "string" /\ request.v.method.v = "")
        thrown(id, msg) == {Unchanged(RpcError(id, -32602, msg))}
        toolsCall(id, params) ==
            LET args(name, arguments) ==
                    IF ~name.ok THEN thrown(id, name.err)
                    ELSE IF arguments.k \in {"undefined", "null"}
                         THEN {Wrapped(id, o) :
                                  o \in handleToolCall(Symbol(name.v), NoParams)}
                    ELSE IF ~asObject(arguments)
                         THEN thrown(id, "arguments must be an object")
                    ELSE {Wrapped(id, o) :
                             o \in handleToolCall(Symbol(name.v), arguments.v)}
            IN IF ~asObject(params) THEN thrown(id, "arguments must be an object")
               ELSE args(normalizeRequiredString(params.v.name, "name", 120),
                         params.v.arguments)
        resourcesRead(id, params) ==
            LET read(uri) ==
                    IF ~uri.ok THEN thrown(id, uri.err)
                    ELSE IF uri.v # InstructionsUri
                         THEN {Unchanged(RpcError(id, -32602, "Unknown resource"))}
                    ELSE {Unchanged(RpcResult(id, [contents |-> <<uri.v>>]))}
            IN IF ~asObject(params) THEN thrown(id, "arguments must be an object")
               ELSE read(normalizeRequiredString(params.v.uri, "uri", 200))
        promptsGet(id, params) ==
            LET get(name) ==
                    IF ~name.ok THEN thrown(id, name.err)
                    ELSE IF name.v # InstructionsPrompt
                         THEN {Unchanged(RpcError(id, -32602, "Unknown prompt"))}
                    ELSE {Unchanged(RpcResult(id, [messages |-> <<"MEMORY_PROMPT">>]))}
            IN IF ~asObject(params) THEN thrown(id, "arguments must be an object")
               ELSE get(normalizeRequiredString(params.v.name, "name", 120))
        dispatch(id, method, params) ==
            CASE method = "initialize" ->
                   {Unchanged(RpcResult(id, [protocolVersion |-> "2024-11-05"]))}
              [] method = "tools/list" -> {Unchanged(RpcResult(id, [tools |-> Tools]))}
              [] method = "tools/call" -> toolsCall(id, params)
              [] method = "resources/list" ->
                   {Unchanged(RpcResult(id, [resources |-> {InstructionsUri}]))}
              [] method = "resources/read" -> resourcesRead(id, params)
              [] method = "prompts/list" ->
                   {Unchanged(RpcResult(id, [prompts |-> {InstructionsPrompt}]))}
              [] method = "prompts/get" -> promptsGet(id, params)
              [] OTHER -> {Unchanged(RpcError(id, -32601, "Method not found"))}
    IN IF invalid THEN {Unchanged(RpcError(RequestId(request), -32600, "Invalid Request"))}
       ELSE IF request.v.method.v = "notifications/initialized"
            THEN {Unchanged(NoResponse)}
       ELSE dispatch(RequestId(request), request.v.method.v, request.v.params)

\* responses.filter(Boolean)
RECURSIVE Filtered(_)
Filtered(responses) ==
    IF responses = <<>> THEN <<>>
    ELSE (IF Head(responses) = NoResponse THEN <<>> ELSE <<Head(responses)>>)
         \o Filtered(Tail(responses))

\* a batch cut short at its first error response
Output_failFast(b) ==
    LET failed == {i \in 1..Len(b.responses) :
                      b.responses[i] # NoResponse /\ b.responses[i].error # Absent}
    IN IF b.array /\ failed # {}
       THEN <<b.responses[CHOOSE i \in failed : \A j \in failed : i <= j]>>
       ELSE Filtered(b.responses)

\* what handleJsonRpc resolves to once every item has settled: null is <<>>
Output(b) ==
    IF b.array THEN Filtered(b.responses)
    ELSE Filtered(<<b.responses[1]>>)

(***************************************************************************)
(* SpecRpc: payloads of one request or a batch of up to MaxBatch requests. *)
(* The handlers of a batch run concurrently: each item's handler settles   *)
(* in a step of its own, in any order.                                     *)
(***************************************************************************)
MaxBatch == 2

RpcConfigs ==
    {c \in Configs : /\ ~c.vectorEnabled /\ ~c.policy.requireTags
                     /\ c.policy.allowRawText /\ ~c.policy.forceLatestSummary
                     /\ c.store.storeRawPlaintext}

NoRpcParams == [name |-> JUndef, arguments |-> JUndef, uri |-> JUndef]

Request(version, id, method, params) ==
    JObj([jsonrpc |-> version, id |-> id, method |-> method, params |-> params])

ToolsCall(id, name, arguments) ==
    Request(JStr("2.0"), id, JStr("tools/call"),
            JObj([NoRpcParams EXCEPT !.name = JStr(<<name>>), !.arguments = arguments]))

\* the context r/a, addressed explicitly
TheContext == [NoParams EXCEPT !.namespace = JStr(<<"r">>), !.context_id = JStr(<<"a">>)]

RpcRequests ==
    {JNull,
     Request(JStr("1.0"), JNum(10), JStr("tools/list"), JUndef),
     Request(JUndef, JUndef, JStr("tools/list"), JUndef),
     Request(JStr("2.0"), JNum(10), JUndef, JUndef),
     Request(JStr("2.0"), JNum(10), JStr(""), JUndef),
     Request(JStr("2.0"), JUndef, JStr("notifications/initialized"), JUndef),
     Request(JStr("2.0"), JNum(10), JStr("notifications/initialized"), JUndef),
     Request(JStr("2.0"), JNum(10), JStr("initialize"), JUndef),
     Request(JStr("2.0"), JNum(10), JStr("tools/list"), JUndef),
     Request(JStr("2.0"), JUndef, JStr("tools/list"), JUndef),
     Request(JStr("2.0"), JNum(10), JStr("resources/list"), JUndef),
     Request(JStr("2.0"), JNum(10), JStr("prompts/list"), JUndef),
     Request(JStr("2.0"), JNum(10), JStr("tools/get"), JUndef),
     Request(JStr("2.0"), JNum(10), JStr("resources/read"),
             JObj([NoRpcParams EXCEPT !.uri = JStr(InstructionsUri)])),
     Request(JStr("2.0"), JNum(10), JStr("resources/read"),
             JObj([NoRpcParams EXCEPT !.uri = JStr(<<"memory://other">>)])),
     Request(JStr("2.0"), JNum(10), JStr("prompts/get"),
             JObj([NoRpcParams EXCEPT !.name = JStr(InstructionsPrompt)])),
     Request(JStr("2.0"), JNum(10), JStr("prompts/get"), JObj(NoRpcParams)),
     Request(JStr("2.0"), JNum(10), JStr("tools/call"), JUndef),
     ToolsCall(JNum(10), "context_create", JObj(TheContext)),
     ToolsCall(JNum(20), "entry_upsert",
               JObj([TheContext EXCEPT !.entry = Entry(JUndef, T_decision, <<"A">>, Tagged)])),
     ToolsCall(JUndef, "entry_upsert",
               JObj([TheContext EXCEPT !.entry = Entry(JUndef, T_summary, <<"B">>, Tagged)])),
     ToolsCall(JNum(20), "entry_upsert",
               JObj([TheContext EXCEPT
                       !.entry = Entry(JStr(Uuid(3)), T_decision, <<"A">>, Tagged)])),
     ToolsCall(JNum(20), "entry_upsert", JObj([TheContext EXCEPT !.entry = JStr(<<"A">>)])),
     ToolsCall(JNum(20), "entry_upsert",
               JObj([NoParams EXCEPT !.alias = JStr(<<"x">>),
                                     !.entry = Entry(JUndef, T_decision, <<"A">>, Tagged)])),
     ToolsCall(JNum(20), "entry_search", JObj(TheContext)),
     ToolsCall(JNum(20), "entry_search", JStr(<<"A">>)),
     ToolsCall(JNum(30), "context_digest",
               JObj([TheContext EXCEPT !.types = JArr(<<JStr(T_summary), JStr(T_decision)>>),
                                       !.limit = JNum(20)])),
     ToolsCall(JNum(30), "context_export", JUndef)}

\* the requests that batches are made of
BatchRequests ==
    {q \in RpcRequests :
        \/ q.k # "object"
        \/ q.v.method \in {JStr("notifications/initialized"), JStr("tools/get")}
        \/ (q.v.method = JStr("tools/list") /\ q.v.jsonrpc = JStr("2.0"))
        \/ (q.v.method = JStr("tools/call") /\ q.v.params.k = "object"
            /\ q.v.params.v.name \in {JStr(<<"context_create">>), JStr(<<"entry_upsert">>),
                                      JStr(<<"entry_search">>)})}

\* a single request, or an array of requests
RpcPayloads ==
    {[array |-> FALSE, requests |-> <<q>>] : q \in RpcRequests}
    \cup {[array |-> TRUE, requests |-> qs] :
             qs \in UNION {[1..n -> BatchRequests] : n \in 0..MaxBatch}}

InitRpc == options \in RpcConfigs /\ InitStore

\* handleJsonRpc is called with a payload: every item's handler is started.
\* `alone` keeps the responses each item would get were it handled by itself.
Receive ==
    /\ Idle
    /\ ~batch.open
    /\ \E payload \in RpcPayloads :
          batch' = [open |-> TRUE, array |-> payload.array,
                    requests |-> payload.requests,
                    responses |-> [i \in 1..Len(payload.requests) |-> Pending],
                    alone |-> [i \in 1..Len(payload.requests) |->
                                 {o.resp : o \in handleRpcRequest(payload.requests[i])}]]
    /\ UNCHANGED <<options, contexts, aliases, entries, uuids, created, now, removed,
                   orphaned, last,
                   inflight>>

\* one item's handler runs its store calls and settles
Settle ==
    /\ batch.open
    /\ \E i \in 1..Len(batch.requests) :
          /\ batch.responses[i] = Pending
          /\ \E o \in handleRpcRequest(batch.requests[i]) :
                /\ Commit("tools/call", NoParams, o)
                /\ batch' = [batch EXCEPT !.responses[i] = o.resp]
    /\ UNCHANGED last

\* every item has settled
Settled == batch.open /\ \A i \in 1..Len(batch.requests) : batch.responses[i] # Pending

\* Promise.all resolves and the output is written
Respond ==
    /\ Settled
    /\ batch' = NoBatch
    /\ UNCHANGED <<options, contexts, aliases, entries, uuids, created, now, removed,
                   orphaned, last,
                   inflight>>

NextRpc == Receive \/ Settle \/ Respond

SpecRpc == InitRpc /\ [][NextRpc]_vars

(***************************************************************************)
(* Vocabulary of the envelope properties: item i of the payload in flight. *)
(***************************************************************************)
Items == 1..Len(batch.requests)

\* jsonrpc is "2.0" and a method is named
WellFormed(q) ==
    /\ q.k = "object"
    /\ q.v.jsonrpc = JStr("2.0")
    /\ q.v.method.k = "string"
    /\ q.v.method.v # ""

KnownMethods == {"initialize", "notifications/initialized", "tools/list", "tools/call",
                 "resources/list", "resources/read", "prompts/list", "prompts/get"}

IsError(r) == r # NoResponse /\ r.error # Absent

IsResult(r) == r # NoResponse /\ r.result # Absent

CodeOf(r) == IF IsError(r) THEN r.error.code ELSE 0

CallsTool(q, name) ==
    /\ WellFormed(q)
    /\ q.v.method.v = "tools/call"
    /\ q.v.params.k = "object"
    /\ q.v.params.v.name = JStr(<<name>>)

\* C21: a request that carries no id is a notification: whatever its method,
\* it gets no response when sent alone and none in the output of its batch.
C21_NotificationsDropped ==
    Settled =>
        \A i \in Items :
            (WellFormed(batch.requests[i]) /\ batch.requests[i].v.id.k = "undefined")
            => /\ batch.responses[i] = NoResponse
               /\ Len(Output(batch)) < Len(batch.requests)

\* the output of a settled batch holds one response per item that was not
\* dropped, in the order of the requests and under each request's id; an
\* item that cannot be served has an error response of its own in the
\* output; an item whose siblings all failed is answered as when handled by
\* itself
BatchOutput ==
    (Settled /\ batch.array) =>
        LET kept == {i \in Items : batch.responses[i] # NoResponse}
            place(i) == Cardinality({j \in kept : j <= i})
        IN /\ Len(Output(batch)) = Cardinality(kept)
           /\ \A i \in kept :
                 /\ Output(batch)[place(i)] = batch.responses[i]
                 /\ batch.responses[i].id = RequestId(batch.requests[i])
           /\ \A j \in Items :
                 (~WellFormed(batch.requests[j])
                  \/ batch.requests[j].v.method.v \notin KnownMethods)
                 => IsError(batch.responses[j])
           /\ \A j \in Items : IsError(batch.responses[j]) => j \in kept
           /\ \A i \in Items :
                 (\A j \in Items \ {i} : IsError(batch.responses[j]))
                 => batch.responses[i] \in batch.alone[i]

\* an item that settles with an error leaves every table as it was, so the
\* siblings that settle after it meet the store they would meet without it
FailureLeavesStore ==
    (batch.open /\ batch'.open) =>
        \A j \in Items :
            (/\ batch.responses[j] = Pending
             /\ batch'.responses[j] # Pending
             /\ IsError(batch'.responses[j]))
            => UNCHANGED <<contexts, aliases, entries, uuids>>

\* C22: a batch is answered with one response per item that was not dropped,
\* in the order of the requests; an item that fails gets an error response
\* of its own and has no effect on what its siblings are answered: it
\* neither removes a sibling's response nor changes what the sibling meets
\* in the store.
C22_BatchItemsIsolated == []BatchOutput /\ [][FailureLeavesStore]_vars

\* a store failure in front of a tools/call that succeeds
C22_Witness ==
    /\ Settled /\ batch.array /\ Len(batch.requests) = 2
    /\ CodeOf(batch.responses[1]) = -32000
    /\ CallsTool(batch.requests[2], "entry_upsert")
    /\ IsResult(batch.responses[2])
    /\ Len(Output(batch)) = 2

\* what kind of answer a response is: none, a result, or an error code
KindOf(r) == IF r = NoResponse THEN 1 ELSE CodeOf(r)

\* C23: the outcomes of the requests of a batch do not interact: under every
\* interleaving of their store operations each request is answered as it is
\* when its own operations come first (a result stays a result, an error
\* keeps its code).
C23_BatchOutcomesIndependent ==
    Settled =>
        \A i \in Items : KindOf(batch.responses[i]) \in {KindOf(r) : r \in batch.alone[i]}

StoreFailures ==
    {"context not found; create it first", "entry not found for context",
     "content exceeds maxContentChars characters", "title exceeds maxTitleChars characters",
     "raw_text exceeds maxRawChars characters",
     "embedding provided but pgvector is not enabled",
     "invalid input syntax for type timestamp with time zone",
     "violates foreign key constraint"}

\* C24: every response has exactly one of result and error; a malformed
\* envelope is answered -32600, an unknown method -32601, a failure raised by
\* the store -32000 and every other failure (a ValidationError) -32602.
C24_ErrorTaxonomy ==
    Settled =>
        \A i \in Items :
            LET q == batch.requests[i]
                r == batch.responses[i]
            IN r # NoResponse =>
                 /\ (r.result = Absent) # (r.error = Absent)
                 /\ IF ~WellFormed(q) THEN CodeOf(r) = -32600
                    ELSE IF q.v.method.v \notin KnownMethods THEN CodeOf(r) = -32601
                    ELSE IsError(r) =>
                           IF r.error.message \in StoreFailures
                           THEN r.error.code = -32000
                           ELSE r.error.code = -32602

\* a store failure and a validation failure answered in one batch
C24_Witness ==
    /\ Settled /\ Len(batch.requests) = 2
    /\ CodeOf(batch.responses[1]) = -32000
    /\ batch.responses[1].error.message = "entry not found for context"
    /\ CodeOf(batch.responses[2]) = -32602
    /\ CallsTool(batch.requests[2], "entry_upsert")

\* C27: tools/call context_digest with namespace, context_id, types and limit
\* answers with a result that names the namespace and the context and
\* carries the summary and the entries per type.
C27_ContextDigestAnswers ==
    Settled =>
        \A i \in Items :
            CallsTool(batch.requests[i], "context_digest")
            => /\ IsResult(batch.responses[i])
               /\ batch.responses[i].result.data.namespace = <<"r">>
               /\ batch.responses[i].result.data.context_id = <<"a">>
               /\ {"summary", "entries"} \subseteq DOMAIN batch.responses[i].result.data

(***************************************************************************)
(* SpecServer: the server of server.ts at work.  startServer builds the    *)
(* store and the handler and listens; it starts no timer, so the steps of  *)
(* the running server are the requests it serves, while the engine's clock *)
(* moves on.                                                               *)
(***************************************************************************)
InitServer == options \in SrchConfigs /\ InitStore

\* GET /health: answered without touching the store
Health ==
    /\ Idle
    /\ last' = [name |-> "health", params |-> NoParams,
                resp |-> [code |-> 0, msg |-> "",
                          data |-> [status |-> "ok",
                                    vectorEnabled |-> options.store.vectorEnabled],
                          warnings |-> <<>>]]
    /\ UNCHANGED <<options, contexts, aliases, entries, uuids, created, now,
                   removed, orphaned, batch,
                   inflight>>

NextServer ==
    \/ ContextCreate
    \/ SrchEntryUpsert
    \/ Health
    \/ Tick
    \/ Reply

\* the clock moves on, responses are delivered, and the server goes on
\* answering the health probe for as long as it runs
SpecServer ==
    /\ InitServer /\ [][NextServer]_vars
    /\ WF_vars(Tick) /\ WF_vars(Reply) /\ WF_vars(Health)

StoredIds == {Uuid(n) : n \in 1..(MaxContextInserts + MaxEntryInserts)}

\* C25: while the server runs, every entry whose expires_at has passed is
\* eventually removed, no client deleting it.
C25_ExpiredEventuallySwept ==
    \A id \in StoredIds :
        (\E e \in entries : e.id = id /\ Expired(e)) ~> ~(\E e \in entries : e.id = id)

(***************************************************************************)
(* SpecSweep: the store's cleanupExpiredEntries called between writes of   *)
(* entries without expiry, with a passed and with a future expiry, in two  *)
(* contexts, one of them under an alias.                                   *)
(***************************************************************************)
SweepEntryArgs ==
    {Entry(JUndef, T_decision, <<"X">>, Tagged),
     JObj([Entry(JUndef, T_fact, <<"Y">>, Tagged).v EXCEPT !.expires_at = JStr(<<"1">>)]),
     JObj([Entry(JUndef, T_fact, <<"Z">>, Tagged).v EXCEPT !.expires_at = JStr(<<"2">>)])}

InitSweep == options \in SrchConfigs /\ InitStore

SweepAliasSet ==
    /\ Idle
    /\ \E params \in {[a EXCEPT !.alias = JStr(<<"x">>)] : a \in Explicit} :
          \E o \in handleToolCall("context_alias_set", params) :
              ToolCall("context_alias_set", params, o)

SweepEntryUpsert ==
    /\ Idle
    /\ \E params \in
            {[a EXCEPT !.entry = e] : a \in Explicit, e \in SweepEntryArgs} :
          \E o \in handleToolCall("entry_upsert", params) :
              ToolCall("entry_upsert", params, o)

\* store.cleanupExpiredEntries(), and the count it resolves to
CleanupExpiredEntries ==
    /\ Idle
    /\ entries' = cleanupExpiredEntries(entries, now).entries
    /\ last' = [name |-> "cleanupExpiredEntries", params |-> NoParams,
                resp |-> [rowCount |-> cleanupExpiredEntries(entries, now).rowCount]]
    /\ UNCHANGED <<options, contexts, aliases, uuids, created, now, removed, orphaned,
                   batch,
                   inflight>>

NextSweep ==
    \/ ContextCreate
    \/ SweepAliasSet
    \/ SweepEntryUpsert
    \/ Tick
    \/ CleanupExpiredEntries
    \/ Reply

SpecSweep == InitSweep /\ [][NextSweep]_vars

\* C26: a call of cleanupExpiredEntries removes, whatever their context,
\* exactly the entries whose expires_at is set and not later than now,
\* returns how many it removed, and changes no other entry, no context and
\* no alias.
C26_SweepRemovesExactlyExpired ==
    [][(last.name = "none" /\ last'.name = "cleanupExpiredEntries")
       => /\ entries' \subseteq entries
          /\ \A e \in entries : e \in entries' <=> ~Expired(e)
          /\ last'.resp.rowCount = Cardinality(entries) - Cardinality(entries')
          /\ contexts' = contexts
          /\ aliases' = aliases]_vars

\* a sweep has removed one entry and left one whose expiry is still ahead,
\* with an alias in place
C26_Witness ==
    /\ last.name = "cleanupExpiredEntries"
    /\ last.resp.rowCount = 1
    /\ \E e \in entries : e.expires_at # NULL /\ ~Expired(e)
    /\ aliases # {}

(***************************************************************************)
(* SpecTag: entries written under every combination of auto-tagging and    *)
(* tag requirement, with no tags, blank, repeated and synthesized tags,    *)
(* into contexts addressed explicitly and by alias.                        *)
(***************************************************************************)
TagConfigs ==
    {c \in Configs : ~c.vectorEnabled /\ c.store.storeRawPlaintext
                     /\ ~c.policy.allowRawText /\ ~c.policy.forceLatestSummary}

TagArgs ==
    {JUndef, JArr(<<>>), JArr(<<JStr(<<" ">>)>>), Tagged,
     JArr(<<JStr(<<" ", "t">>), JStr(<<"t">>), JStr(<<"s">>)>>),
     JArr(<<JStr(TagNamespacePrefix \o <<"r">>)>>),
     JStr(<<"t">>)}

TagEntryArgs ==
    {Entry(JUndef, T_decision, <<"A">>, g) : g \in TagArgs}
    \cup {Entry(JStr(Uuid(2)), T_decision, <<"A">>, g) : g \in {JUndef, Tagged}}

TagLatestArgs == {Entry(JUndef, T_summary, <<"A">>, g) : g \in {JUndef, Tagged}}

TagAddressing ==
    Explicit \cup {[NoParams EXCEPT !.alias = JStr(<<"x">>)]}

InitTag == options \in TagConfigs /\ InitStore

TagAliasSet ==
    /\ Idle
    /\ \E params \in {[a EXCEPT !.alias = JStr(<<"x">>)] : a \in Explicit} :
          \E o \in handleToolCall("context_alias_set", params) :
              ToolCall("context_alias_set", params, o)

TagEntryUpsert ==
    /\ Idle
    /\ \E params \in
            {[a EXCEPT !.entry = e] : a \in TagAddressing, e \in TagEntryArgs} :
          \E o \in handleToolCall("entry_upsert", params) :
              ToolCall("entry_upsert", params, o)

TagEntryLatestUpsert ==
    /\ Idle
    /\ \E params \in
            {[a EXCEPT !.entry = e] : a \in TagAddressing, e \in TagLatestArgs} :
          \E o \in handleToolCall("entry_latest_upsert", params) :
              ToolCall("entry_latest_upsert", params, o)

NextTag ==
    \/ ContextCreate
    \/ TagAliasSet
    \/ TagEntryUpsert
    \/ TagEntryLatestUpsert
    \/ Reply

SpecTag == InitTag /\ [][NextTag]_vars

\* the tags a caller sent, as strings without surrounding blanks
CallerTags(call) ==
    IF HasEntry(call) /\ call.params.entry.v.tags.k = "array"
    THEN {Trim(call.params.entry.v.tags.v[i].v) :
             i \in 1..Len(call.params.entry.v.tags.v)} \ {<<>>}
    ELSE {}

\* the tags argument is absent or an array
TagsGiven(call) ==
    HasEntry(call) /\ call.params.entry.v.tags.k \in {"undefined", "null", "array"}

\* C28: with auto-tagging on, the entry a successful write stores carries
\* namespace:<ns> and context:<id> of the context the call addressed and
\* every tag of the caller, each once; with tag requirement on, a write
\* left with no tag at all answers with a validation error and stores
\* nothing.
C28_TagPolicy ==
    [][IsCall(last', {"entry_upsert", "entry_latest_upsert"})
       => /\ (options.policy.autoTag /\ last'.resp.code = 0)
             => \E e \in entries' :
                   /\ e.id = last'.resp.data.id
                   /\ e.tags = last'.resp.data.tags
                   /\ LET stored == {e.tags[i] : i \in 1..Len(e.tags)} IN
                      /\ TagNamespacePrefix \o Addressed(last'.params).namespace \in stored
                      /\ TagContextPrefix \o Addressed(last'.params).contextId \in stored
                      /\ CallerTags(last') \subseteq stored
                      /\ Cardinality(stored) = Len(e.tags)
          /\ (options.policy.requireTags /\ ~options.policy.autoTag
              /\ TagsGiven(last') /\ CallerTags(last') = {})
             => /\ last'.resp.code = -32602
                /\ entries' = entries]_vars

\* under auto-tagging a write through the alias, its tags sent twice and
\* with blanks, has stored an entry with four tags
C28_Witness ==
    /\ IsCall(last, {"entry_upsert"})
    /\ options.policy.autoTag
    /\ last.params.alias = JStr(<<"x">>)
    /\ last.resp.code = 0
    /\ Cardinality(CallerTags(last)) = 2
    /\ Len(last.resp.data.tags) = 4

(***************************************************************************)
(* Raw text on read and at rest (SpecRaw).                                 *)
(***************************************************************************)
\* the rows a read returned: the entry of a get that found one, the rows
\* of a search
RowsRead(call) ==
    IF call.resp.code # 0 THEN {}
    ELSE IF IsCall(call, {"entry_get", "entry_latest_get"})
         THEN (IF "id" \in DOMAIN call.resp.data THEN {call.resp.data} ELSE {})
    ELSE IF IsCall(call, {"entry_search"})
         THEN {call.resp.data[i] : i \in 1..Len(call.resp.data)}
    ELSE {}

\* the raw text a stored row stands for
RawOf(e) ==
    IF e.raw_text # NULL THEN e.raw_text
    ELSE IF e.raw_compressed # NULL THEN decompressText(e.raw_compressed)
    ELSE NULL

\* C29: a read never returns the compressed bytes; a get without
\* include_raw and every search return raw_text = null, under both storage
\* modes; a get with include_raw returns the raw text the row stands for.
C29_RawWithheld ==
    \A row \in RowsRead(last) :
        /\ "raw_compressed" \notin DOMAIN row
        /\ (IsCall(last, {"entry_search"}) \/ ~JTruthy(last.params.include_raw))
           => row.raw_text = NULL
        /\ (IsCall(last, {"entry_get"}) /\ JTruthy(last.params.include_raw))
           => \E e \in entries : e.id = row.id /\ row.raw_text = RawOf(e)

\* a get without include_raw has returned an entry whose raw text is
\* stored as plaintext
C29_Witness ==
    /\ IsCall(last, {"entry_get"})
    /\ ~JTruthy(last.params.include_raw)
    /\ options.store.storeRawPlaintext
    /\ \E row \in RowsRead(last) : \E e \in entries : e.id = row.id /\ e.raw_text # NULL

\* the raw text an entry write asks to store: none when omitted or blank
RawAsked(call) ==
    IF call.params.entry.v.raw_text.k = "string"
       /\ Trim(call.params.entry.v.raw_text.v) # <<>>
    THEN Trim(call.params.entry.v.raw_text.v)
    ELSE NULL

\* C30: every stored entry has at most one raw representation, raw_text
\* alone under plaintext storage and raw_compressed alone under compressed
\* storage; the row an insert or update has just written stands for the
\* raw text of that write and nothing of an earlier one.
C30_OneRawRepresentation ==
    /\ \A e \in entries :
          /\ e.raw_text = NULL \/ e.raw_compressed = NULL
          /\ options.store.storeRawPlaintext => e.raw_compressed = NULL
          /\ ~options.store.storeRawPlaintext => e.raw_text = NULL
    /\ (IsCall(last, {"entry_upsert"}) /\ last.resp.code = 0)
       => \E e \in entries :
             /\ e.id = last.resp.data.id
             /\ RawOf(e) = RawAsked(last)
             /\ RawAsked(last) = NULL => (e.raw_text = NULL /\ e.raw_compressed = NULL)

\* an update that names a stored entry and sends no raw text, under
\* compressed storage, while another entry keeps its compressed text
C30_Witness ==
    /\ IsCall(last, {"entry_upsert"})
    /\ last.resp.code = 0
    /\ ~options.store.storeRawPlaintext
    /\ Truthy(ArgEntryId(last))
    /\ RawAsked(last) = NULL
    /\ \E e \in entries : e.id # last.resp.data.id /\ e.raw_compressed # NULL

(***************************************************************************)
(* SpecImportance: normalizeImportance applied to every kind of input, and *)
(* entries written with those inputs as their importance.                  *)
(***************************************************************************)
\* numbers in tenths: -1, -0.1, 0, 0.4, 0.5, 42.7, 99.5, 100, 100.1, 100.5, 200
ImportanceNumbers == {-10, -1, 0, 4, 5, 427, 995, 1000, 1001, 1005, 2000}

ImportanceArgs ==
    {JUndef, JNull, JStr(<<>>), JStr(<<" ">>), JStr(<<"4", "2">>),
     JStr(<<"2", "0", "0">>), JStr(<<"x">>), JBool(TRUE), JArr(<<>>),
     JObj(EmptyObject)}
    \cup {JNum(n) : n \in ImportanceNumbers}

ImportanceEntryArgs ==
    {JObj([Entry(JUndef, T_decision, <<"A">>, Tagged).v EXCEPT !.importance = m]) :
        m \in {JUndef, JNum(-1), JNum(4), JNum(427), JNum(1000), JNum(1005),
               JStr(<<"4", "2">>), JBool(TRUE)}}

InitImportance == options \in SrchConfigs /\ InitStore

NormalizeImportance ==
    /\ Idle
    /\ \E value \in ImportanceArgs :
          last' = [name |-> "normalizeImportance", params |-> [value |-> value],
                   resp |-> normalizeImportance(value)]
    /\ UNCHANGED <<options, contexts, aliases, entries, uuids, created, now, removed,
                   orphaned, batch,
                   inflight>>

ImportanceEntryUpsert ==
    /\ Idle
    /\ \E params \in
            {[a EXCEPT !.entry = e] : a \in Explicit, e \in ImportanceEntryArgs} :
          \E o \in handleToolCall("entry_upsert", params) :
              ToolCall("entry_upsert", params, o)

NextImportance ==
    \/ ContextCreate
    \/ ImportanceEntryUpsert
    \/ NormalizeImportance
    \/ Reply

SpecImportance == InitImportance /\ [][NextImportance]_vars

\* C32: normalizeImportance rejects every number below 0 or above 100
\* instead of clamping it, answers every number from 0 to 100 with the
\* nearest integer (a half rounds up), and answers undefined, null and the
\* empty string with 0; every stored importance is an integer from 0 to 100.
C32_ImportanceRange ==
    /\ \A e \in entries : e.importance \in 0..100
    /\ last.name = "normalizeImportance" =>
          LET value == last.params.value
              r == last.resp
          IN /\ (value.k = "number" /\ (value.v < 0 \/ value.v > 1000))
                => ~r.ok /\ r.err = "importance must be between 0 and 100"
             /\ (value.k = "number" /\ value.v >= 0 /\ value.v <= 1000)
                => r.ok /\ r.v \in 0..100 /\ (10 * r.v - value.v) \in -4..5
             /\ (value.k \in {"undefined", "null"} \/ value = JStr(<<>>))
                => r = Ok(0)
             /\ r.ok => r.v \in 0..100

\* 100.5 has been rejected while an entry written with 42.7 is stored as 43
C32_Witness ==
    /\ last.name = "normalizeImportance"
    /\ last.params.value = JNum(1005)
    /\ ~last.resp.ok
    /\ \E e \in entries : e.importance = 43

(***************************************************************************)
(* SpecNormalizeTags: normalizeTags applied to tag arrays of up to MaxTagItems      *)
(* items under a cap of MaxTags tags of at most MaxTagLength characters.   *)
(***************************************************************************)
MaxTagItems == 3

MaxTags == 2

MaxTagLength == 2

\* a tag of n characters
LongTag(n) == [i \in 1..n |-> "q"]

TagItems ==
    {JStr(<<"t">>), JStr(<<" ", "t">>), JStr(<<"s">>), JStr(<<"r">>), JStr(<<" ">>),
     JStr(<<" ">> \o LongTag(MaxTagLength) \o <<" ">>),
     JStr(LongTag(MaxTagLength + 1)), JNull, JNum(10)}

RECURSIVE TagArrays(_)
TagArrays(n) ==
    IF n = 0 THEN {<<>>}
    ELSE TagArrays(n - 1)
         \cup {Append(a, t) : a \in {b \in TagArrays(n - 1) : Len(b) = n - 1},
                              t \in TagItems}

TagArrayArgs ==
    {JUndef, JNull, JStr(<<"t">>)} \cup {JArr(a) : a \in TagArrays(MaxTagItems)}

NormalizeTags ==
    /\ Idle
    /\ \E value \in TagArrayArgs :
          last' = [name |-> "normalizeTags", params |-> [value |-> value],
                   resp |-> normalizeTags(value, MaxTags, MaxTagLength)]
    /\ UNCHANGED <<options, contexts, aliases, entries, uuids, created, now, removed,
                   orphaned, batch,
                   inflight>>

NextNormalizeTags == NormalizeTags \/ Reply

SpecNormalizeTags == InitQuery /\ [][NextNormalizeTags]_vars

\* the text an item contributes: a string without its surrounding
\* whitespace, nothing for null and undefined
TagText(item) == IF item.k = "string" THEN Trim(item.v) ELSE <<>>

\* the position at which a tag first occurs in the array
FirstAt(array, tag) ==
    CHOOSE i \in 1..Len(array) :
        /\ TagText(array[i]) = tag
        /\ \A j \in 1..(i - 1) : TagText(array[j]) # tag

DistinctTags(array) == {TagText(array[i]) : i \in 1..Len(array)} \ {<<>>}

\* C33: for a tag array normalizeTags either fails or returns the trimmed
\* non-empty tags, each once, in the order of their first occurrence; it
\* fails, and never truncates, when there are more distinct tags than the
\* cap or a trimmed tag is longer than the per-item length, and succeeds
\* when every item is a tag within the length and the distinct tags are
\* within the cap.
C33_TagsNormalized ==
    (last.name = "normalizeTags" /\ last.params.value.k = "array") =>
        LET array == last.params.value.v
            r == last.resp
            strings == \A i \in 1..Len(array) :
                           array[i].k \in {"string", "null", "undefined"}
            tooLong == \E i \in 1..Len(array) : Len(TagText(array[i])) > MaxTagLength
            tooMany == Cardinality(DistinctTags(array)) > MaxTags
        IN /\ (tooLong \/ tooMany) => ~r.ok
           /\ (strings /\ ~tooLong /\ ~tooMany) => r.ok
           /\ r.ok =>
                 /\ {r.v[i] : i \in 1..Len(r.v)} = DistinctTags(array)
                 /\ \A i, j \in 1..Len(r.v) : i < j => r.v[i] # r.v[j]
                 /\ \A i, j \in 1..Len(r.v) :
                       i < j => FirstAt(array, r.v[i]) < FirstAt(array, r.v[j])

\* a repeated tag, written once with and once without a leading blank,
\* behind another tag
C33_Witness ==
    /\ last.name = "normalizeTags"
    /\ last.params.value = JArr(<<JStr(<<"s">>), JStr(<<" ", "t">>), JStr(<<"t">>)>>)
    /\ last.resp.ok
    /\ last.resp.v = << <<"s">>, <<"t">> >>

(***************************************************************************)
(* SpecRows: entries inserted, updated, read and deleted by id in two      *)
(* contexts that are created and deleted.                                  *)
(***************************************************************************)
RowEntryIdArgs == {JUndef, JStr(Uuid(2)), JStr(Uuid(3))}

RowEntryArgs ==
    {Entry(i, T_decision, c, Tagged) : i \in RowEntryIdArgs, c \in {<<"A">>, <<"B">>}}

InitRows == options \in SrchConfigs /\ InitStore

RowEntryUpsert ==
    /\ Idle
    /\ \E params \in
            {[a EXCEPT !.entry = e] : a \in Explicit, e \in RowEntryArgs} :
          \E o \in handleToolCall("entry_upsert", params) :
              ToolCall("entry_upsert", params, o)

NextRows ==
    \/ ContextCreate
    \/ ContextDelete
    \/ RowEntryUpsert
    \/ EntryGet
    \/ EntryDelete
    \/ Reply

SpecRows == InitRows /\ [][NextRows]_vars

\* the stored entry a call names by context and entry id, before the call
TargetEntries(call, id) ==
    {e \in entries : e.id = id /\ e.context_pk = TargetPk(call)}

\* the arguments the handler hands to the store for a call
StoreInput(call) ==
    [namespace |-> Addressed(call.params).namespace,
     context_id |-> Addressed(call.params).contextId,
     entry_id |-> ArgString(call.params.entry_id)]

ElsewhereOnly(call, id) ==
    /\ TargetEntries(call, id) = {}
    /\ \E e \in entries : e.id = id

\* C36: a read, an update or a delete addressed to one context with the id
\* of an entry that only another context holds behaves as if there were no
\* such entry (found = false, a not-found failure, deleted = false) and
\* leaves every stored entry as it was.
C36_EntriesIsolated ==
    [][/\ (IsCall(last', {"entry_get", "entry_delete"})
           /\ ElsewhereOnly(last', ArgString(last'.params.entry_id)))
          => /\ last'.resp.code = 0
             /\ IsCall(last', {"entry_get"}) => last'.resp.data = NoData
             /\ IsCall(last', {"entry_delete"}) => ~last'.resp.data.deleted
             /\ entries' = entries
       /\ (IsCall(last', {"entry_upsert"}) /\ HasEntry(last')
           /\ ElsewhereOnly(last', ArgEntryId(last')))
          => /\ last'.resp.code = -32000
             /\ last'.resp.msg = (IF TargetExists(last')
                                  THEN "entry not found for context"
                                  ELSE "context not found; create it first")
             /\ entries' = entries]_vars

\* an update addressed to a stored context with the id of an entry of the
\* other context has failed
C36_Witness ==
    /\ IsCall(last, {"entry_upsert"})
    /\ last.resp.msg = "entry not found for context"
    /\ TargetExists(last)
    /\ ElsewhereOnly(last, ArgEntryId(last))

\* C37: context_create on a stored context that carries no scope leaves the
\* stored scope as it was (under SpecCtx).
C37_ScopeKeptWhenOmitted ==
    [][\A old \in Recreates(last') :
          (last'.resp.code = 0 /\ last'.params.scope.k = "undefined")
          => /\ \E c \in contexts' : c.id = old.id
             /\ RowAfter(old).scope = old.scope]_vars

(***************************************************************************)
(* SpecRecreate: a context that holds entries is created again, with and   *)
(* without each optional attribute, while the clock moves on.              *)
(***************************************************************************)
RecreateArgs ==
    {[TheContext EXCEPT !.description = d, !.tags = g, !.metadata = m, !.scope = sc] :
        d \in {JUndef, JStr(<<"d">>)}, g \in {JUndef, Tagged},
        m \in {JUndef, JObj({<<"k", "1">>})}, sc \in {JUndef, JStr(S_local)}}

RecreateEntryArgs == {Entry(JUndef, T_decision, <<"A">>, Tagged)}

InitRecreate == options \in SrchConfigs /\ InitStore

RecreateContextCreate ==
    /\ Idle
    /\ \E params \in RecreateArgs :
          \E o \in handleToolCall("context_create", params) :
              ToolCall("context_create", params, o)

RecreateEntryUpsert ==
    /\ Idle
    /\ \E params \in {[TheContext EXCEPT !.entry = e] : e \in RecreateEntryArgs} :
          \E o \in handleToolCall("entry_upsert", params) :
              ToolCall("entry_upsert", params, o)

NextRecreate ==
    \/ RecreateContextCreate
    \/ RecreateEntryUpsert
    \/ Tick
    \/ Reply

SpecRecreate == InitRecreate /\ [][NextRecreate]_vars

\* C38: a create of a context that is already stored answers with the same
\* internal id, keeps the row's id, key and created_at, adds no context, and
\* leaves every entry as it was and attached to that context, whatever
\* attributes the call carries.
C38_RecreateKeepsIdentity ==
    [][\A old \in Recreates(last') :
          /\ last'.resp.code = 0
          /\ last'.resp.data.id = old.id
          /\ last'.resp.data.created_at = old.created_at
          /\ \E c \in contexts' :
                /\ c.id = old.id
                /\ c.created_at = old.created_at
                /\ c.namespace = old.namespace /\ c.context_id = old.context_id
                /\ contexts' = (contexts \ {old}) \cup {c}
          /\ entries' = entries
          /\ EntriesOf(entries', old.id) = EntriesOf(entries, old.id)]_vars

\* a context created at instant 0 that holds an entry has been created
\* again at a later instant with another description
C38_Witness ==
    /\ IsCall(last, {"context_create"})
    /\ last.params.description = JStr(<<"d">>)
    /\ now > 0
    /\ \E c \in contexts :
          /\ c.created_at = 0 /\ c.description = <<"d">>
          /\ \E e \in entries : e.context_pk = c.id /\ e.created_at < now

(***************************************************************************)
(* SpecUpdate: entries of one context inserted and updated with every      *)
(* attribute supplied, with some and with none, under both raw storage     *)
(* modes, while the clock moves on.                                        *)
(***************************************************************************)
UpdateConfigs ==
    {c \in Configs : ~c.vectorEnabled /\ c.policy.allowRawText
                     /\ ~c.policy.requireTags /\ ~c.policy.autoTag
                     /\ ~c.policy.forceLatestSummary}

\* an entry with every optional attribute, one with half of them, one with none
UpdateEntryShapes ==
    {[NoEntryParams EXCEPT !.entry_type = JStr(T_fact), !.content = JStr(<<"B">>),
                           !.title = JStr(<<"T">>), !.tags = Tagged,
                           !.importance = JNum(427), !.created_by = JStr(<<"c">>),
                           !.raw_text = JStr(<<"w">>),
                           !.metadata = JObj({<<"k", "1">>}),
                           !.expires_at = JStr(<<"2">>)],
     [NoEntryParams EXCEPT !.entry_type = JStr(T_decision), !.content = JStr(<<"A">>),
                           !.title = JStr(<<" ">>), !.importance = JNum(427),
                           !.metadata = JObj({<<"m", "1">>})],
     [NoEntryParams EXCEPT !.entry_type = JStr(T_decision), !.content = JStr(<<"A">>)]}

UpdateEntryArgs ==
    {JObj([s EXCEPT !.entry_id = i]) : s \in UpdateEntryShapes, i \in RowEntryIdArgs}

InitUpdate == options \in UpdateConfigs /\ InitStore

UpdateContextCreate ==
    /\ Idle
    /\ \E params \in {TheContext} :
          \E o \in handleToolCall("context_create", params) :
              ToolCall("context_create", params, o)

UpdateEntryUpsert ==
    /\ Idle
    /\ \E params \in {[TheContext EXCEPT !.entry = e] : e \in UpdateEntryArgs} :
          \E o \in handleToolCall("entry_upsert", params) :
              ToolCall("entry_upsert", params, o)

NextUpdate ==
    \/ UpdateContextCreate
    \/ UpdateEntryUpsert
    \/ Tick
    \/ Reply

SpecUpdate == InitUpdate /\ [][NextUpdate]_vars

\* an entry_upsert that carried an entry id and succeeded: the update path
Updates(call) ==
    /\ IsCall(call, {"entry_upsert"})
    /\ HasEntry(call)
    /\ Truthy(ArgEntryId(call))
    /\ call.resp.code = 0

\* the stored row as the arguments of an update call for it
RowUpdated(old, sent) ==
    [id |-> old.id, context_pk |-> old.context_pk, created_at |-> old.created_at,
     entry_type |-> ArgString(sent.entry_type),
     content |-> ArgString(sent.content),
     title |-> Supplied(sent.title),
     tags |-> IF sent.tags.k = "array"
              THEN [i \in 1..Len(sent.tags.v) |-> sent.tags.v[i].v] ELSE <<>>,
     importance |-> IF sent.importance.k = "number"
                    THEN (sent.importance.v + 5) \div 10 ELSE 0,
     created_by |-> Supplied(sent.created_by),
     metadata |-> IF sent.metadata.k = "object" THEN sent.metadata.v ELSE {},
     expires_at |-> Supplied(sent.expires_at)]

\* C39: a successful update replaces entry type, content, title, tags,
\* importance, created_by, raw text, metadata and expires_at by what the call
\* carries, an omitted one by its empty value (null, no tags, 0, the empty
\* document, no raw text); the row keeps its id, its context and its
\* created_at, and every other entry stays as it was.
C39_UpdateReplacesAll ==
    [][Updates(last') =>
          \E old \in TargetEntries(last', ArgEntryId(last')) :
          \E new \in entries' :
             /\ entries' = (entries \ {old}) \cup {new}
             /\ \A f \in DOMAIN RowUpdated(old, last'.params.entry.v) :
                   new[f] = RowUpdated(old, last'.params.entry.v)[f]
             /\ RawOf(new) = Supplied(last'.params.entry.v.raw_text)
             /\ new.raw_text = NULL \/ new.raw_compressed = NULL]_vars

\* an entry written at instant 0 with every attribute has been updated
\* later by a call that carries none of the optional ones
C39_Witness ==
    /\ Updates(last)
    /\ last.params.entry.v.title = JUndef
    /\ last.params.entry.v.raw_text = JUndef
    /\ now > 0
    /\ \E e \in entries :
          /\ e.id = ArgEntryId(last) /\ e.created_at = 0 /\ e.title = NULL
          /\ e.tags = <<>> /\ e.importance = 0 /\ e.expires_at = NULL
          /\ e.metadata = {}
    /\ Cardinality(entries) = 2

(***************************************************************************)
(* SpecExpiry: entries of one context without expiry, with expiry 1 and    *)
(* with expiry 2, read, updated, deleted and searched by id while the      *)
(* clock moves past their expiry, with the sweep and the context delete    *)
(* as further steps.                                                       *)
(***************************************************************************)
ExpiryEntryArgs ==
    {JObj([Entry(i, T_decision, <<"X">>, Tagged).v EXCEPT !.expires_at = x]) :
        i \in RowEntryIdArgs, x \in {JUndef, JStr(<<"1">>), JStr(<<"2">>)}}

ExpiryEntryUpsert ==
    /\ Idle
    /\ \E params \in {[TheContext EXCEPT !.entry = e] : e \in ExpiryEntryArgs} :
          \E o \in handleToolCall("entry_upsert", params) :
              ToolCall("entry_upsert", params, o)

ExpiryEntryGet ==
    /\ Idle
    /\ \E params \in {[TheContext EXCEPT !.entry_id = i] :
                         i \in RowEntryIdArgs \ {JUndef}} :
          \E o \in handleToolCall("entry_get", params) :
              ToolCall("entry_get", params, o)

ExpiryEntryDelete ==
    /\ Idle
    /\ \E params \in {[TheContext EXCEPT !.entry_id = i] :
                         i \in RowEntryIdArgs \ {JUndef}} :
          \E o \in handleToolCall("entry_delete", params) :
              ToolCall("entry_delete", params, o)

ExpiryEntrySearch ==
    /\ Idle
    /\ \E params \in {[TheContext EXCEPT !.include_expired = x] :
                         x \in {JUndef, JBool(TRUE)}} :
          \E o \in handleToolCall("entry_search", params) :
              ToolCall("entry_search", params, o)

ExpiryContextDelete ==
    /\ Idle
    /\ \E params \in {TheContext} :
          \E o \in handleToolCall("context_delete", params) :
              ToolCall("context_delete", params, o)

NextExpiry ==
    \/ UpdateContextCreate
    \/ ExpiryContextDelete
    \/ ExpiryEntryUpsert
    \/ ExpiryEntryGet
    \/ ExpiryEntryDelete
    \/ ExpiryEntrySearch
    \/ Tick
    \/ CleanupExpiredEntries
    \/ Reply

SpecExpiry == InitSearch /\ [][NextExpiry]_vars

\* the entry a call by id addresses is stored and its expiry has passed
TargetExpired(call, id) == \E e \in TargetEntries(call, id) : Expired(e)

\* C40: an entry whose expires_at has passed leaves the table only by the
\* sweep, by an entry_delete of its id or by the delete of its context;
\* until then entry_get by its id returns it, an entry_upsert with its id
\* updates it and an entry_delete of its id removes it, while an
\* entry_search without include_expired does not list it.
C40_ExpiredStaysAddressable ==
    [][/\ \A e \in entries :
             (Expired(e) /\ ~\E f \in entries' : f.id = e.id)
             => \/ last'.name = "cleanupExpiredEntries"
                \/ IsCall(last', {"context_delete"})
                \/ /\ IsCall(last', {"entry_delete"})
                   /\ ArgString(last'.params.entry_id) = e.id
       /\ (IsCall(last', {"entry_get"})
           /\ TargetExpired(last', ArgString(last'.params.entry_id)))
          => /\ last'.resp.code = 0
             /\ last'.resp.data # NoData
             /\ last'.resp.data.id = ArgString(last'.params.entry_id)
             /\ last'.resp.data.expires_at
                   \in {e.expires_at : e \in TargetEntries(last',
                                               ArgString(last'.params.entry_id))}
             /\ entries' = entries
       /\ (IsCall(last', {"entry_upsert"})
           /\ TargetExpired(last', ArgEntryId(last')))
          => /\ last'.resp.code = 0
             /\ \E f \in entries' :
                   /\ f.id = ArgEntryId(last')
                   /\ f.expires_at = Supplied(last'.params.entry.v.expires_at)
       /\ (IsCall(last', {"entry_delete"})
           /\ TargetExpired(last', ArgString(last'.params.entry_id)))
          => /\ last'.resp.code = 0
             /\ last'.resp.data.deleted
             /\ ~\E f \in entries' : f.id = ArgString(last'.params.entry_id)
       /\ (IsCall(last', {"entry_search"}) /\ last'.params.include_expired = JUndef)
          => /\ last'.resp.code = 0
             /\ \A i \in 1..Len(last'.resp.data) :
                   ~\E e \in entries : e.id = last'.resp.data[i].id /\ Expired(e)]_vars

\* an entry_get has returned an entry whose expiry instant lies before now
C40_Witness ==
    /\ IsCall(last, {"entry_get"})
    /\ TargetExpired(last, ArgString(last.params.entry_id))
    /\ last.resp.data # NoData
    /\ last.resp.data.expires_at = <<"1">>
    /\ now = 2

(***************************************************************************)
(* SpecCreateRace: two callers run createContext and setContextAlias at    *)
(* the same time.  A call draws its id, awaits its one statement, which    *)
(* the engine runs atomically, and returns the row.  In the specifications *)
(* with calls in flight `uuids` counts the ids drawn.                      *)
(***************************************************************************)
MaxDraws == MaxContextInserts + MaxEntryInserts

RaceContextInputs ==
    {[namespace |-> <<"r">>, context_id |-> kd[1], description |-> kd[2],
      tags |-> NULL_TAGS, scope |-> NULL, owner |-> NULL, metadata |-> NULL_OBJ] :
        kd \in {<<<<"a">>, NULL>>, <<<<"a">>, <<"d">>>>, <<<<"b">>, NULL>>}}

RaceAliasInputs ==
    {[alias |-> a, namespace |-> <<"r">>, context_id |-> k] :
        a \in {<<"x">>}, k \in {<<"a">>, <<"b">>}}

StoreCall(op, input, id) ==
    [op |-> op, input |-> input, id |-> id, pc |-> "query", contextPk |-> NULL,
     row |-> NoRow, err |-> ""]

\* createContext is called: const id = crypto.randomUUID()
CreateContextCall ==
    \E p \in Callers : \E input \in RaceContextInputs :
       /\ inflight[p] = NoStoreCall
       /\ uuids < MaxDraws
       /\ uuids' = uuids + 1
       /\ inflight' = [inflight EXCEPT ![p] = StoreCall("createContext", input, uuids + 1)]
       /\ UNCHANGED <<options, contexts, aliases, entries, created, now, removed,
                      orphaned, last, batch>>

\* the engine runs the INSERT ... ON CONFLICT ... RETURNING * of the call
CreateContextQuery ==
    \E p \in Callers :
       /\ inflight[p].op = "createContext"
       /\ inflight[p].pc = "query"
       /\ LET run(r) ==
                /\ contexts' = r.contexts
                /\ created' = created + Cardinality(r.contexts \ contexts)
                /\ inflight' = [inflight EXCEPT ![p].pc = "done", ![p].row = r.row]
          IN run(createContext(contexts, inflight[p].id - 1, now, inflight[p].input))
       /\ UNCHANGED <<options, aliases, entries, uuids, now, removed, orphaned, last,
                      batch>>

SetContextAliasCall ==
    \E p \in Callers : \E input \in RaceAliasInputs :
       /\ inflight[p] = NoStoreCall
       /\ inflight' = [inflight EXCEPT ![p] = StoreCall("setContextAlias", input, 0)]
       /\ UNCHANGED <<options, contexts, aliases, entries, uuids, created, now, removed,
                      orphaned, last, batch>>

SetContextAliasQuery ==
    \E p \in Callers :
       /\ inflight[p].op = "setContextAlias"
       /\ inflight[p].pc = "query"
       /\ LET run(r) ==
                /\ aliases' = r.aliases
                /\ inflight' = [inflight EXCEPT ![p].pc = "done", ![p].row = r.row]
          IN run(setContextAlias(aliases, inflight[p].input))
       /\ UNCHANGED <<options, contexts, entries, uuids, created, now, removed, orphaned,
                      last, batch>>

\* the awaited promise resolves and the call returns its row
Return ==
    \E p \in Callers :
       /\ inflight[p].op # "none"
       /\ inflight[p].pc = "done"
       /\ inflight' = [inflight EXCEPT ![p] = NoStoreCall]
       /\ UNCHANGED <<options, contexts, aliases, entries, uuids, created, now, removed,
                      orphaned, last, batch>>

NextCreateRace ==
    \/ CreateContextCall
    \/ CreateContextQuery
    \/ SetContextAliasCall
    \/ SetContextAliasQuery
    \/ Return

SpecCreateRace == InitSearch /\ [][NextCreateRace]_vars

\* the callers whose createContext for a key has run its statement
Created(p) == inflight[p].op = "createContext" /\ inflight[p].pc = "done"

SameKey(a, b) == a.namespace = b.namespace /\ a.context_id = b.context_id

\* C34: however createContext and setContextAlias calls interleave, the
\* contexts table holds at most one row per (namespace, context_id) and the
\* alias table at most one row per alias; two overlapping creates of one key
\* both return a row, and it is the same context: the id of the stored row.
C34_CreatesRaceSafely ==
    /\ \A c, d \in contexts : SameKey(c, d) => c = d
    /\ \A a, b \in aliases : a.alias = b.alias => a = b
    /\ \A p, q \in Callers :
          (Created(p) /\ Created(q) /\ SameKey(inflight[p].input, inflight[q].input))
          => /\ inflight[p].row # NoRow
             /\ inflight[p].row.id = inflight[q].row.id
             /\ \E c \in contexts :
                   SameKey(c, inflight[p].input) /\ c.id = inflight[p].row.id

\* two creates of one key overlapped: the caller that drew its id first ran
\* its statement second, and both hold the row with the other caller's id
C34_Witness ==
    \E p, q \in Callers :
       /\ p # q
       /\ Created(p) /\ Created(q)
       /\ SameKey(inflight[p].input, inflight[q].input)
       /\ inflight[p].id < inflight[q].id
       /\ inflight[p].row.id = Uuid(inflight[q].id)
       /\ inflight[q].row.id = Uuid(inflight[q].id)
       /\ \E a \in aliases : TRUE

(***************************************************************************)
(* SpecEntryRace: upsertEntry runs as two statements, the lookup of the    *)
(* context and the write, and deleteContext and createContext of other     *)
(* callers run in between.  The entries drawn pass the length and syntax   *)
(* checks that upsertEntry makes between its two statements.               *)
(***************************************************************************)
RaceEntryInputs ==
    {[namespace |-> <<"r">>, context_id |-> <<"a">>,
      entry |-> [entry_id |-> i, entry_type |-> T_decision, title |-> NULL,
                 content |-> <<"X">>, tags |-> <<>>, importance |-> 0,
                 created_by |-> NULL, expires_at |-> NULL, raw_text |-> NULL,
                 embedding |-> NoEmbedding, metadata |-> {}]] :
        i \in {NULL, Uuid(2)}}

RaceDeleteInputs ==
    {[namespace |-> <<"r">>, context_id |-> k] : k \in {<<"a">>}}

UpsertEntryCall ==
    \E p \in Callers : \E input \in RaceEntryInputs :
       /\ inflight[p] = NoStoreCall
       /\ inflight' = [inflight EXCEPT
                          ![p] = [StoreCall("upsertEntry", input, 0) EXCEPT
                                     !.pc = "lookup"]]
       /\ UNCHANGED <<options, contexts, aliases, entries, uuids, created, now, removed,
                      orphaned, last, batch>>

\* const contextPk = await resolveContextPk(...); a missing context throws;
\* for an insert the id is drawn before the second statement is sent
UpsertEntryLookup ==
    \E p \in Callers :
       /\ inflight[p].op = "upsertEntry"
       /\ inflight[p].pc = "lookup"
       /\ LET found(contextPk, insert) ==
                IF contextPk = NULL
                THEN /\ inflight' = [inflight EXCEPT
                                        ![p].pc = "done",
                                        ![p].err = "context not found; create it first"]
                     /\ UNCHANGED uuids
                ELSE /\ insert => uuids < MaxDraws
                     /\ uuids' = IF insert THEN uuids + 1 ELSE uuids
                     /\ inflight' = [inflight EXCEPT
                                        ![p].pc = "write",
                                        ![p].contextPk = contextPk,
                                        ![p].id = IF insert THEN uuids + 1 ELSE 0]
          IN found(resolveContextPk(contexts, inflight[p].input.namespace,
                                    inflight[p].input.context_id),
                   ~Truthy(inflight[p].input.entry.entry_id))
       /\ UNCHANGED <<options, contexts, aliases, entries, created, now, removed,
                      orphaned, last, batch>>

\* the UPDATE or the INSERT of the call, with the contextPk looked up before
UpsertEntryWrite ==
    \E p \in Callers :
       /\ inflight[p].op = "upsertEntry"
       /\ inflight[p].pc = "write"
       /\ LET run(r) ==
                /\ entries' = r.entries
                /\ inflight' = [inflight EXCEPT ![p].pc = "done", ![p].row = r.row,
                                                ![p].err = r.err]
              cols(entry) ==
                EntryColumns(entry, prepareRaw(entry.raw_text, options.store),
                             options.store)
          IN IF Truthy(inflight[p].input.entry.entry_id)
             THEN run(buildUpdateSql(entries, uuids, cols(inflight[p].input.entry),
                                     inflight[p].input.entry.entry_id,
                                     inflight[p].contextPk))
             ELSE run(buildInsertSql(contexts, entries, inflight[p].id - 1,
                                     cols(inflight[p].input.entry),
                                     inflight[p].contextPk, now))
       /\ UNCHANGED <<options, contexts, aliases, uuids, created, now, removed,
                      orphaned, last, batch>>

DeleteContextCall ==
    \E p \in Callers : \E input \in RaceDeleteInputs :
       /\ inflight[p] = NoStoreCall
       /\ inflight' = [inflight EXCEPT ![p] = StoreCall("deleteContext", input, 0)]
       /\ UNCHANGED <<options, contexts, aliases, entries, uuids, created, now, removed,
                      orphaned, last, batch>>

\* the DELETE of the context row, and the cascade over its entries
DeleteContextQuery ==
    \E p \in Callers :
       /\ inflight[p].op = "deleteContext"
       /\ inflight[p].pc = "query"
       /\ LET run(r) ==
                /\ contexts' = r.contexts
                /\ entries' = r.entries
                /\ removed' = removed \cup
                      {[id |-> e.id, namespace |-> inflight[p].input.namespace,
                        context_id |-> inflight[p].input.context_id] :
                          e \in entries \ r.entries}
                /\ inflight' = [inflight EXCEPT ![p].pc = "done",
                                                ![p].row = [deleted |-> r.deleted]]
          IN run(deleteContext(contexts, entries, inflight[p].input))
       /\ UNCHANGED <<options, aliases, uuids, created, now, orphaned, last, batch>>

NextEntryRace ==
    \/ CreateContextCall
    \/ CreateContextQuery
    \/ DeleteContextCall
    \/ DeleteContextQuery
    \/ UpsertEntryCall
    \/ UpsertEntryLookup
    \/ UpsertEntryWrite
    \/ Return

SpecEntryRace == InitSearch /\ [][NextEntryRace]_vars

\* an insert of caller p has run its second statement
Inserted(p) ==
    /\ inflight[p].op = "upsertEntry"
    /\ inflight[p].pc = "done"
    /\ inflight[p].contextPk # NULL
    /\ ~Truthy(inflight[p].input.entry.entry_id)

\* C35: whatever the interleaving of the two statements of upsertEntry with
\* deleteContext and createContext, every stored entry has its context row;
\* an insert whose context is gone by the time it reports was rejected by
\* the foreign key or its row was removed by the cascade.
C35_NoOrphanEntries ==
    /\ \A e \in entries : \E c \in contexts : c.id = e.context_pk
    /\ \A p \in Callers :
          (Inserted(p) /\ ~\E c \in contexts : c.id = inflight[p].contextPk)
          => \/ /\ inflight[p].err = "violates foreign key constraint"
                /\ ~\E e \in entries : e.id = Uuid(inflight[p].id)
             \/ /\ inflight[p].row.id = Uuid(inflight[p].id)
                /\ \E r \in removed : r.id = inflight[p].row.id
                /\ ~\E e \in entries : e.id = inflight[p].row.id

\* an insert looked its context up, the context was deleted and created
\* again under the same key, and the insert was then rejected
C35_Witness ==
    \E p \in Callers :
       /\ Inserted(p)
       /\ inflight[p].err = "violates foreign key constraint"
       /\ \E c \in contexts :
             /\ SameKey(c, inflight[p].input)
             /\ c.id # inflight[p].contextPk

====
